---- MODULE Spec2Model ----
(***************************************************************************)
(* Model of the Stepper step-navigation state machine                      *)
(* (src/src/stepper.js, class StepperStateMachine) as it is driven by the  *)
(* panel scripts, which keep the article being navigated in the variable   *)
(* currentArticle and pass it to every call.                               *)
(***************************************************************************)
EXTENDS Integers, Sequences, FiniteSets

(***************************************************************************)
(* Bounds of the model.                                                    *)
(***************************************************************************)
MaxSteps == 2
MaxFailures == 2
MaxPaths == 2
MaxQueryLen == 3
MaxTopN == 3

(***************************************************************************)
(* Values.  null is modelled by NoArticle (an article), NullStep (a step)  *)
(* and NoStepId (a step id).                                               *)
(***************************************************************************)
NoArticle == 0
NoStepId == 0
NullStep == [id |-> NoStepId, text |-> 0]

\* new Date().toISOString(): the instant of the call.  No operation reads a
\* timestamp back, so every instant is the one opaque value Now.
Now == "now"

ReasonCategories == {"did-not-work"}
Notes == {""}

\* Step k of a main path: id k, text k.
MainSteps(n) == [k \in 1..n |-> [id |-> k, text |-> k]]

\* An article without an escalation record, a fallback result without a path.
NoEscalation == [when |-> "", target |-> ""]
NoFallback == [id |-> "", steps |-> << >>]

\* The knowledge base: article id -> article.  Step ids are unique within an
\* article only; texts 1 and 2 of the fallback "fb1" repeat main-step texts.
\* Article 4 has no fallback path and escalates to Tier2; article 2 has
\* neither steps, nor fallback paths, nor an escalation record.  tags holds
\* the words an article is about.
KB ==
  [a \in 1..4 |->
     CASE a = 1 ->
            [steps |-> MainSteps(MaxSteps),
             fallbacks |->
               << [id |-> "fb1",
                   steps |-> << [id |-> 11, text |-> 1],
                                [id |-> 12, text |-> 9],
                                [id |-> 13, text |-> 2] >>],
                  [id |-> "fb2", steps |-> << [id |-> 14, text |-> 8] >>] >>,
             tags |-> {"email"},
             escalation |-> NoEscalation]
       [] a = 2 ->
            [steps |-> << >>, fallbacks |-> << >>,
             tags |-> {"printer"},
             escalation |-> NoEscalation]
       [] a = 3 ->
            [steps |-> << [id |-> 1, text |-> 7] >>,
             fallbacks |->
               << [id |-> "fb1", steps |-> << [id |-> 2, text |-> 1] >>] >>,
             tags |-> {"printer"},
             escalation |-> NoEscalation]
       [] OTHER ->
            [steps |-> MainSteps(MaxSteps), fallbacks |-> << >>,
             tags |-> {"printer"},
             escalation |-> [when |-> "always", target |-> "Tier2"]]]

\* The articles navigated where the runner is driven method by method; the
\* panels and the fallback selection work on the whole catalog.
ArticleIds == 1..3
CatalogIds == DOMAIN KB
\* Article 3 does not define "fb2", articles 2 and 4 define no fallback.
FallbackIds == {"fb1", "fb2"}

Range(seq) == {seq[i] : i \in 1..Len(seq)}

VARIABLES
  state,           \* this.state of the StepperStateMachine
  currentArticle,  \* the article the panel is navigating (NoArticle = null)
  lastCall,        \* the last operation called, with its arguments
  lastResult,      \* the value it returned
  prevReset,       \* whether the call before the last one was reset():
                   \* "no", "clean", or "dirty" when it discarded session data
  contCount,       \* continue calls in a row since a fresh startArticle, -1 when broken
  failCalls,       \* recordFailure calls since the session began
  enhancedKnowledgeBase,  \* the article array of the retrieval module
  chat,            \* the view of the panel: what is shown and what is pending
  stepManager      \* the fields of the legacy StepManager

vars == << state, currentArticle, lastCall, lastResult, prevReset,
           contCount, failCalls, enhancedKnowledgeBase, chat, stepManager >>

(***************************************************************************)
(* StepperStateMachine: the methods as functions of the state s.           *)
(***************************************************************************)

\* The methods the class defines.
StepperMethods ==
  {"constructor", "reset", "startArticle", "getTotalSteps", "getCurrentStep",
   "getStepsForActivePath", "continue", "back", "recordFailure",
   "switchToFallback", "getCompletionSummary", "getState", "isComplete"}

\* The runner before its constructor has run: no field holds anything.
NoState ==
  [selectedArticleId |-> NoArticle,
   activePath |-> "",
   currentStepIndex |-> 0,
   completedStepIds |-> << >>,
   attemptedPaths |-> << >>,
   failureHistory |-> << >>]

\* Mutant: a reset that clears the fields one by one and forgets failureHistory.
resetKeepsFailures(s) ==
  [selectedArticleId |-> NoArticle,
   activePath |-> "main",
   currentStepIndex |-> 0,
   completedStepIds |-> << >>,
   attemptedPaths |-> << >>,
   failureHistory |-> s.failureHistory]

\* reset() on a runner whose state is s: the state object it installs, which
\* takes nothing from s.  completedStepIds is a JS Set, which keeps insertion
\* order: a sequence without duplicates.
reset(s) ==
  [selectedArticleId |-> NoArticle,
   activePath |-> "main",
   currentStepIndex |-> 0,
   completedStepIds |-> << >>,
   attemptedPaths |-> << >>,
   failureHistory |-> << >>]

\* article.fallbacks?.find(f => f.id === activePath): index of the first
\* fallback with that id, 0 when there is none.
findFallback(article, path) ==
  LET fbs == KB[article].fallbacks
      hits == {i \in 1..Len(fbs) : fbs[i].id = path}
  IN IF hits = {} THEN 0 ELSE CHOOSE i \in hits : \A j \in hits : i <= j

getStepsForActivePath(s, article) ==
  IF article = NoArticle THEN << >>
  ELSE IF s.activePath = "main" THEN KB[article].steps
  ELSE LET i == findFallback(article, s.activePath)
       IN IF i = 0 THEN << >> ELSE KB[article].fallbacks[i].steps

getTotalSteps(s, article) ==
  IF article = NoArticle THEN 0
  ELSE IF s.activePath = "main" THEN Len(KB[article].steps)
  ELSE LET i == findFallback(article, s.activePath)
       IN IF i = 0 THEN 0 ELSE Len(KB[article].fallbacks[i].steps)

\* Mutant: getCurrentStep that reads the 0-based index as a step number.
getCurrentStepOffByOne(s, article) ==
  IF article = NoArticle THEN NullStep
  ELSE LET steps == getStepsForActivePath(s, article)
       IN IF s.currentStepIndex >= Len(steps) \/ s.currentStepIndex = 0
          THEN NullStep
          ELSE steps[s.currentStepIndex]

\* Indices are 0-based in the code, sequences 1-based here.
getCurrentStep(s, article) ==
  IF article = NoArticle THEN NullStep
  ELSE LET steps == getStepsForActivePath(s, article)
       IN IF s.currentStepIndex >= Len(steps) THEN NullStep
          ELSE steps[s.currentStepIndex + 1]

\* Mutant: isComplete that asks for the index to be past the length.
isCompleteStrict(s, article) ==
  s.currentStepIndex > Len(getStepsForActivePath(s, article))

isComplete(s, article) ==
  s.currentStepIndex >= Len(getStepsForActivePath(s, article))

\* Mutant: an add that moves an element already present to the end.
SetAddMovesToEnd(seq, x) == Append(SelectSeq(seq, LAMBDA y : y # x), x)

\* Set.prototype.add on the insertion-ordered set.
SetAdd(seq, x) == IF x \in Range(seq) THEN seq ELSE Append(seq, x)

\* Mutant: startArticle without the call of reset().
startArticleNoReset(s, articleId, article, t) ==
  LET s1 == [s EXCEPT !.selectedArticleId = articleId,
                      !.activePath = "main",
                      !.currentStepIndex = 0,
                      !.attemptedPaths =
                         Append(@, [path |-> "main", startedAt |-> t])]
  IN [state |-> s1,
      result |-> [totalSteps |-> getTotalSteps(s1, article),
                  currentStep |-> getCurrentStep(s1, article)]]

\* Mutant: startArticle that opens the session without an attemptedPaths
\* entry for the main path.
startArticleNoEntry(s, articleId, article, t) ==
  LET s1 == [reset(s) EXCEPT !.selectedArticleId = articleId,
                          !.activePath = "main",
                          !.currentStepIndex = 0]
  IN [state |-> s1,
      result |-> [totalSteps |-> getTotalSteps(s1, article),
                  currentStep |-> getCurrentStep(s1, article)]]

startArticle(s, articleId, article, t) ==
  LET s1 == [reset(s) EXCEPT !.selectedArticleId = articleId,
                          !.activePath = "main",
                          !.currentStepIndex = 0,
                          !.attemptedPaths =
                             Append(@, [path |-> "main", startedAt |-> t])]
  IN [state |-> s1,
      result |-> [totalSteps |-> getTotalSteps(s1, article),
                  currentStep |-> getCurrentStep(s1, article)]]

\* Mutant: continue that reads currentStep.id without looking whether there
\* is a current step: on null the read raises a TypeError.
continueRaises(s, article) ==
  LET currentStep == getCurrentStep(s, article)
      s1 == [s EXCEPT !.completedStepIds = SetAdd(@, currentStep.id),
                      !.currentStepIndex = @ + 1]
      steps == getStepsForActivePath(s1, article)
      isLastStep == s1.currentStepIndex >= Len(steps)
  IN IF currentStep = NullStep
     THEN [state |-> s, result |-> [raised |-> TRUE]]
     ELSE [state |-> s1,
           result |-> [completed |-> isLastStep,
                       nextStep |-> IF isLastStep THEN NullStep
                                    ELSE getCurrentStep(s1, article),
                       currentStepIndex |-> s1.currentStepIndex,
                       totalSteps |-> Len(steps)]]

\* Mutant: continue without the early return at the end of the path.
continueUnguarded(s, article) ==
  LET currentStep == getCurrentStep(s, article)
      s1 == [s EXCEPT !.completedStepIds =
                         IF currentStep = NullStep THEN @
                         ELSE SetAdd(@, currentStep.id),
                      !.currentStepIndex = @ + 1]
      steps == getStepsForActivePath(s1, article)
      isLastStep == s1.currentStepIndex >= Len(steps)
  IN [state |-> s1,
      result |-> [completed |-> isLastStep,
                  nextStep |-> IF isLastStep THEN NullStep
                               ELSE getCurrentStep(s1, article),
                  currentStepIndex |-> s1.currentStepIndex,
                  totalSteps |-> getTotalSteps(s1, article)]]

\* Mutant: continue that tests the end of the path with > instead of >=.
continueOffByOne(s, article) ==
  LET currentStep == getCurrentStep(s, article)
  IN IF currentStep = NullStep
     THEN [state |-> s, result |-> [completed |-> TRUE]]
     ELSE LET s1 == [s EXCEPT !.completedStepIds = SetAdd(@, currentStep.id),
                              !.currentStepIndex = @ + 1]
              steps == getStepsForActivePath(s1, article)
              isLastStep == s1.currentStepIndex > Len(steps)
          IN [state |-> s1,
              result |-> [completed |-> isLastStep,
                          nextStep |-> IF isLastStep THEN NullStep
                                       ELSE getCurrentStep(s1, article),
                          currentStepIndex |-> s1.currentStepIndex,
                          totalSteps |-> getTotalSteps(s1, article)]]

\* Mutant: continue that marks the last step completed but stays on it.
continueStalls(s, article) ==
  LET currentStep == getCurrentStep(s, article)
  IN IF currentStep = NullStep
     THEN [state |-> s, result |-> [completed |-> TRUE]]
     ELSE LET steps == getStepsForActivePath(s, article)
              s1 == [s EXCEPT !.completedStepIds = SetAdd(@, currentStep.id),
                              !.currentStepIndex =
                                 IF @ + 1 >= Len(steps) THEN @ ELSE @ + 1]
              isLastStep == s1.currentStepIndex >= Len(steps)
          IN [state |-> s1,
              result |-> [completed |-> isLastStep,
                          nextStep |-> IF isLastStep THEN NullStep
                                       ELSE getCurrentStep(s1, article),
                          currentStepIndex |-> s1.currentStepIndex,
                          totalSteps |-> getTotalSteps(s1, article)]]

continue(s, article) ==
  LET currentStep == getCurrentStep(s, article)
  IN IF currentStep = NullStep
     THEN [state |-> s, result |-> [completed |-> TRUE]]
     ELSE LET s1 == [s EXCEPT !.completedStepIds = SetAdd(@, currentStep.id),
                              !.currentStepIndex = @ + 1]
              steps == getStepsForActivePath(s1, article)
              isLastStep == s1.currentStepIndex >= Len(steps)
          IN [state |-> s1,
              result |-> [completed |-> isLastStep,
                          nextStep |-> IF isLastStep THEN NullStep
                                       ELSE getCurrentStep(s1, article),
                          currentStepIndex |-> s1.currentStepIndex,
                          totalSteps |-> getTotalSteps(s1, article)]]

\* Mutant: back that tests the index with >= 0 instead of > 0.
backUnguarded(s) ==
  IF s.currentStepIndex >= 0
  THEN LET s1 == [s EXCEPT !.currentStepIndex = @ - 1]
       IN [state |-> s1,
           result |-> [success |-> TRUE,
                       currentStepIndex |-> s1.currentStepIndex]]
  ELSE [state |-> s, result |-> [success |-> FALSE]]

\* Mutant: back that also retracts the last completion.
backRetracts(s) ==
  IF s.currentStepIndex > 0
  THEN LET s1 == [s EXCEPT !.currentStepIndex = @ - 1,
                           !.completedStepIds =
                              IF @ = << >> THEN @ ELSE SubSeq(@, 1, Len(@) - 1)]
       IN [state |-> s1,
           result |-> [success |-> TRUE,
                       currentStepIndex |-> s1.currentStepIndex]]
  ELSE [state |-> s, result |-> [success |-> FALSE]]

back(s) ==
  IF s.currentStepIndex > 0
  THEN LET s1 == [s EXCEPT !.currentStepIndex = @ - 1]
       IN [state |-> s1,
           result |-> [success |-> TRUE,
                       currentStepIndex |-> s1.currentStepIndex]]
  ELSE [state |-> s, result |-> [success |-> FALSE]]

\* Mutant: recordFailure that puts the record first (unshift for push).
recordFailurePrepends(s, stepId, reasonCategory, note, t) ==
  LET failure == [stepId |-> stepId, reasonCategory |-> reasonCategory,
                  note |-> note, timestamp |-> t]
  IN [state |-> [s EXCEPT !.failureHistory = << failure >> \o @],
      result |-> failure]

\* Mutant: recordFailure that restarts the path.
recordFailureRewinds(s, stepId, reasonCategory, note, t) ==
  LET failure == [stepId |-> stepId, reasonCategory |-> reasonCategory,
                  note |-> note, timestamp |-> t]
  IN [state |-> [s EXCEPT !.failureHistory = Append(@, failure),
                          !.currentStepIndex = 0],
      result |-> failure]

recordFailure(s, stepId, reasonCategory, note, t) ==
  LET failure == [stepId |-> stepId, reasonCategory |-> reasonCategory,
                  note |-> note, timestamp |-> t]
  IN [state |-> [s EXCEPT !.failureHistory = Append(@, failure)],
      result |-> failure]

\* Mutant: switchToFallback that starts the fallback path where the previous
\* path stood.
switchToFallbackKeepsIndex(s, fallbackId, article, completedStepTextsSoFar, t) ==
  LET s1 == [s EXCEPT !.activePath = fallbackId,
                      !.attemptedPaths =
                         Append(@, [path |-> fallbackId, startedAt |-> t])]
  IN [state |-> s1,
      result |-> [totalSteps |-> getTotalSteps(s1, article),
                  currentStep |-> getCurrentStep(s1, article),
                  skippedSteps |-> -1]]

\* Mutant: switchToFallback that marks the first fallback step completed when
\* its text is among the texts handed in.
switchToFallbackMarks(s, fallbackId, article, completedStepTextsSoFar, t) ==
  LET s0 == [s EXCEPT !.activePath = fallbackId,
                      !.currentStepIndex = 0,
                      !.attemptedPaths =
                         Append(@, [path |-> fallbackId, startedAt |-> t])]
      first == getCurrentStep(s0, article)
      s1 == IF first # NullStep /\ first.text \in Range(completedStepTextsSoFar)
            THEN [s0 EXCEPT !.completedStepIds = SetAdd(@, first.id)]
            ELSE s0
  IN [state |-> s1,
      result |-> [totalSteps |-> getTotalSteps(s1, article),
                  currentStep |-> getCurrentStep(s1, article),
                  skippedSteps |-> -1]]

\* The method declares two parameters: a third argument is ignored and the
\* result has no skippedSteps property (skippedSteps |-> -1 is undefined).
switchToFallback(s, fallbackId, article, completedStepTextsSoFar, t) ==
  LET s1 == [s EXCEPT !.activePath = fallbackId,
                      !.currentStepIndex = 0,
                      !.attemptedPaths =
                         Append(@, [path |-> fallbackId, startedAt |-> t])]
  IN [state |-> s1,
      result |-> [totalSteps |-> getTotalSteps(s1, article),
                  currentStep |-> getCurrentStep(s1, article),
                  skippedSteps |-> -1]]

getCompletionSummary(s, t) ==
  [completedSteps |-> s.completedStepIds,
   failureHistory |-> s.failureHistory,
   attemptedPaths |-> s.attemptedPaths,
   completedAt |-> t]

getState(s) == s

(***************************************************************************)
(* The panel's computation of the texts handed to switchToFallback.        *)
(***************************************************************************)
completedStepTexts(s, article) ==
  IF article = NoArticle THEN << >>
  ELSE LET allSteps == KB[article].steps
           st == getState(s)
       IN SelectSeq([i \in 1..Len(allSteps) |->
                       IF allSteps[i].id \in Range(st.completedStepIds)
                       THEN allSteps[i].text ELSE 0],
                    LAMBDA x : x # 0)

(***************************************************************************)
(* The fallback selection of the Step Runner.  The panels call             *)
(* selectFallback(currentArticle, allArticles, reason, note) and branch on *)
(* the type of the result; the policy is the documented one.  An article   *)
(* relates to a failure when the reason or the note is one of its tags;    *)
(* among the candidates the first in allArticles order is taken.           *)
(***************************************************************************)
Relates(a, reasonCategory, note) ==
  reasonCategory \in KB[a].tags \/ note \in KB[a].tags

\* Positions in allArticles of the cross-article candidates.
Candidates(article, allArticles, reasonCategory, note) ==
  {i \in 1..Len(allArticles) :
     /\ allArticles[i] # article
     /\ Relates(allArticles[i], reasonCategory, note)
     /\ KB[allArticles[i]].fallbacks # << >>}

SelectionResult(type, fallback, article, escalation) ==
  [type |-> type, fallback |-> fallback, article |-> article,
   escalation |-> escalation]

\* Mutant: the related articles are searched before the article's own
\* fallback paths are looked at.
selectFallbackSearchesFirst(article, allArticles, reasonCategory, note) ==
  LET own == KB[article].fallbacks
      hits == Candidates(article, allArticles, reasonCategory, note)
  IN IF hits # {}
     THEN LET target == allArticles[CHOOSE i \in hits : \A j \in hits : i <= j]
          IN SelectionResult("cross-article", KB[target].fallbacks[1], target,
                             NoEscalation)
     ELSE IF own # << >>
     THEN SelectionResult("same-article", own[1], NoArticle, NoEscalation)
     ELSE SelectionResult("escalation", NoFallback, NoArticle,
                          KB[article].escalation)

\* Mutant: any related article is a target, with or without fallback paths,
\* the current article included.
selectFallbackAnyRelated(article, allArticles, reasonCategory, note) ==
  LET own == KB[article].fallbacks
      hits == {i \in 1..Len(allArticles) :
                 Relates(allArticles[i], reasonCategory, note)}
  IN IF own # << >>
     THEN SelectionResult("same-article", own[1], NoArticle, NoEscalation)
     ELSE IF hits # {}
     THEN LET target == allArticles[CHOOSE i \in hits : \A j \in hits : i <= j]
          IN SelectionResult("cross-article",
                             IF KB[target].fallbacks = << >> THEN NoFallback
                             ELSE KB[target].fallbacks[1],
                             target, NoEscalation)
     ELSE SelectionResult("escalation", NoFallback, NoArticle,
                          KB[article].escalation)

\* Mutant: the fall-through result never carries the escalation record.
selectFallbackBareEscalation(article, allArticles, reasonCategory, note) ==
  LET own == KB[article].fallbacks
      hits == Candidates(article, allArticles, reasonCategory, note)
  IN IF own # << >>
     THEN SelectionResult("same-article", own[1], NoArticle, NoEscalation)
     ELSE IF hits # {}
     THEN LET target == allArticles[CHOOSE i \in hits : \A j \in hits : i <= j]
          IN SelectionResult("cross-article", KB[target].fallbacks[1], target,
                             NoEscalation)
     ELSE SelectionResult("escalation", NoFallback, NoArticle, NoEscalation)

selectFallback(article, allArticles, reasonCategory, note) ==
  LET own == KB[article].fallbacks
      hits == Candidates(article, allArticles, reasonCategory, note)
  IN IF own # << >>
     THEN SelectionResult("same-article", own[1], NoArticle, NoEscalation)
     ELSE IF hits # {}
     THEN LET target == allArticles[CHOOSE i \in hits : \A j \in hits : i <= j]
          IN SelectionResult("cross-article", KB[target].fallbacks[1], target,
                             NoEscalation)
     ELSE SelectionResult("escalation", NoFallback, NoArticle,
                          KB[article].escalation)

(***************************************************************************)
(* The retrieval scorer (src/src/retrieval.js).  A string is the sequence  *)
(* of its characters, a token list a sequence of strings.                  *)
(***************************************************************************)
LowerCase == << "a", "b", "c", "d", "e", "f", "g", "h", "i", "j", "k", "l", "m", "n", "o", "p", "q", "r", "s", "t", "u", "v", "w", "x", "y", "z" >>
UpperCase == << "A", "B", "C", "D", "E", "F", "G", "H", "I", "J", "K", "L", "M", "N", "O", "P", "Q", "R", "S", "T", "U", "V", "W", "X", "Y", "Z" >>
Digits == {"0", "1", "2", "3", "4", "5", "6", "7", "8", "9"}

\* String.prototype.toLowerCase, character by character.
toLowerCase(str) ==
  [i \in 1..Len(str) |->
     IF \E k \in 1..26 : UpperCase[k] = str[i]
     THEN LowerCase[CHOOSE k \in 1..26 : UpperCase[k] = str[i]]
     ELSE str[i]]

\* The classes \w and \s of a regular expression: \w holds the underscore.
IsWordChar(c) == c \in Range(LowerCase) \cup Range(UpperCase) \cup Digits \cup {"_"}
IsSpace(c) == c \in {" ", "\t", "\n"}

\* str.replace(/[^\w\s]/g, ' ')
replaceNonWord(str) ==
  [i \in 1..Len(str) |->
     IF IsWordChar(str[i]) \/ IsSpace(str[i]) THEN str[i] ELSE " "]

\* str.split(/\s+/).filter(token => token.length > 0): the maximal runs of
\* characters that are not whitespace; cur is the run being read.
RECURSIVE splitOnSpace(_, _)
splitOnSpace(str, cur) ==
  IF str = << >> THEN (IF cur = << >> THEN << >> ELSE << cur >>)
  ELSE IF IsSpace(Head(str))
  THEN (IF cur = << >> THEN << >> ELSE << cur >>) \o splitOnSpace(Tail(str), << >>)
  ELSE splitOnSpace(Tail(str), Append(cur, Head(str)))

normalizeQuery(query) ==
  IF \A i \in 1..Len(query) : IsSpace(query[i]) THEN << >>
  ELSE splitOnSpace(replaceNonWord(toLowerCase(query)), << >>)

\* How many of the tokens, counted per occurrence, are among queryTokens.
RECURSIVE countIncluded(_, _)
countIncluded(tokens, queryTokens) ==
  IF tokens = << >> THEN 0
  ELSE (IF Head(tokens) \in Range(queryTokens) THEN 1 ELSE 0)
       + countIncluded(Tail(tokens), queryTokens)

RECURSIVE countTagTokens(_, _)
countTagTokens(tags, queryTokens) ==
  IF tags = << >> THEN 0
  ELSE countIncluded(normalizeQuery(Head(tags)), queryTokens)
       + countTagTokens(Tail(tags), queryTokens)

\* Mutant: a tag scores once, however many of its tokens match.
scoreArticlePerTag(article, queryTokens) ==
  3 * Cardinality({i \in 1..Len(article.tags) :
                     countIncluded(normalizeQuery(article.tags[i]), queryTokens) > 0})
  + 2 * countIncluded(normalizeQuery(article.product), queryTokens)
  + countIncluded(normalizeQuery(article.title), queryTokens)

\* Mutant: the loops run over the query tokens, so a token typed twice
\* counts twice.
scoreArticlePerQueryToken(article, queryTokens) ==
  LET tagTokens == [i \in 1..Len(article.tags) |-> normalizeQuery(article.tags[i])]
      hits(tokens) ==
        Cardinality({p \in (1..Len(tokens)) \X (1..Len(queryTokens)) :
                       tokens[p[1]] = queryTokens[p[2]]})
      tagHits ==
        Cardinality({t \in UNION {{<<i, j, k>> : j \in 1..Len(tagTokens[i]),
                                               k \in 1..Len(queryTokens)} :
                                    i \in 1..Len(tagTokens)} :
                       tagTokens[t[1]][t[2]] = queryTokens[t[3]]})
  IN 3 * tagHits
     + 2 * hits(normalizeQuery(article.product))
     + hits(normalizeQuery(article.title))

scoreArticle(article, queryTokens) ==
  3 * countTagTokens(article.tags, queryTokens)
  + 2 * countIncluded(normalizeQuery(article.product), queryTokens)
  + countIncluded(normalizeQuery(article.title), queryTokens)

\* Mutant: a sort that puts an entry ahead of the entries of equal score.
insertByScoreAhead(entry, sorted) ==
  LET k == Cardinality({i \in 1..Len(sorted) : sorted[i].score > entry.score})
  IN SubSeq(sorted, 1, k) \o << entry >> \o SubSeq(sorted, k + 1, Len(sorted))

\* The comparison sort of Array.prototype.sort is stable: an entry goes
\* behind every entry whose score is at least its own.
insertByScore(entry, sorted) ==
  LET k == Cardinality({i \in 1..Len(sorted) : sorted[i].score >= entry.score})
  IN SubSeq(sorted, 1, k) \o << entry >> \o SubSeq(sorted, k + 1, Len(sorted))

RECURSIVE sortByScore(_)
sortByScore(scored) ==
  IF scored = << >> THEN << >>
  ELSE insertByScore(scored[Len(scored)],
                     sortByScore(SubSeq(scored, 1, Len(scored) - 1)))

\* Mutant: no early return for a query without tokens.
retrieveArticlesScoresAlways(kb, query, topN) ==
  LET queryTokens == normalizeQuery(query)
      scoredArticles == [i \in 1..Len(kb) |->
                           [id |-> kb[i].id,
                            score |-> scoreArticle(kb[i], queryTokens)]]
      sorted == sortByScore(scoredArticles)
      sliced == SubSeq(sorted, 1, IF topN < Len(sorted) THEN topN ELSE Len(sorted))
      topMatches == SelectSeq(sliced, LAMBDA match : match.score > 0)
      topScore == IF Len(topMatches) > 0 THEN topMatches[1].score ELSE 0
  IN [kb |-> kb,
      scored |-> Len(kb),
      result |-> [matches |-> topMatches, lowConfidence |-> topScore < 9,
                  topScore |-> topScore, query |-> query]]

\* Mutant: the article array itself is sorted, not a copy of it.
retrieveArticlesSortsInPlace(kb, query, topN) ==
  LET queryTokens == normalizeQuery(query)
      scoredArticles == [i \in 1..Len(kb) |->
                           [id |-> kb[i].id,
                            score |-> scoreArticle(kb[i], queryTokens)]]
      sorted == sortByScore(scoredArticles)
      sliced == SubSeq(sorted, 1, IF topN < Len(sorted) THEN topN ELSE Len(sorted))
      topMatches == SelectSeq(sliced, LAMBDA match : match.score > 0)
      topScore == IF Len(topMatches) > 0 THEN topMatches[1].score ELSE 0
      byId(id) == kb[CHOOSE i \in 1..Len(kb) : kb[i].id = id]
  IN IF Len(queryTokens) = 0
     THEN [kb |-> kb,
           scored |-> 0,
           result |-> [matches |-> << >>, lowConfidence |-> FALSE,
                       topScore |-> -1, query |-> query]]
     ELSE [kb |-> [i \in 1..Len(kb) |-> byId(sorted[i].id)],
           scored |-> Len(kb),
           result |-> [matches |-> topMatches, lowConfidence |-> topScore < 9,
                       topScore |-> topScore, query |-> query]]

\* retrieveArticles(query, topN) over the article array kb.  The result of
\* the early return has no topScore (-1 is undefined); scored is the number
\* of scoreArticle calls made.
retrieveArticles(kb, query, topN) ==
  LET queryTokens == normalizeQuery(query)
      scoredArticles == [i \in 1..Len(kb) |->
                           [id |-> kb[i].id,
                            score |-> scoreArticle(kb[i], queryTokens)]]
      sorted == sortByScore(scoredArticles)
      sliced == SubSeq(sorted, 1, IF topN < Len(sorted) THEN topN ELSE Len(sorted))
      topMatches == SelectSeq(sliced, LAMBDA match : match.score > 0)
      topScore == IF Len(topMatches) > 0 THEN topMatches[1].score ELSE 0
  IN IF Len(queryTokens) = 0
     THEN [kb |-> kb,
           scored |-> 0,
           result |-> [matches |-> << >>, lowConfidence |-> FALSE,
                       topScore |-> -1, query |-> query]]
     ELSE [kb |-> kb,
           scored |-> Len(kb),
           result |-> [matches |-> topMatches, lowConfidence |-> topScore < 9,
                       topScore |-> topScore, query |-> query]]

\* null, where an article is expected.
NullArticle == [id |-> NoArticle, tags |-> << >>, product |-> << >>, title |-> << >>]

\* enhancedKnowledgeBase.find(article => article.id === id) || null
getArticleById(kb, id) ==
  LET hits == {i \in 1..Len(kb) : kb[i].id = id}
  IN [kb |-> kb,
      result |-> IF hits = {} THEN NullArticle
                 ELSE kb[CHOOSE i \in hits : \A j \in hits : i <= j]]

\* Mutant: the first article with a positive score, whatever the others
\* score.
findBestMatchFirstHit(kb, query) ==
  LET queryTokens == normalizeQuery(query)
      hits == {i \in 1..Len(kb) : scoreArticle(kb[i], queryTokens) > 0}
  IN [kb |-> kb,
      result |-> IF hits = {} THEN NullArticle
                 ELSE kb[CHOOSE i \in hits : \A j \in hits : i <= j]]

\* results.matches[0].article is the article the entry was scored from: the
\* one with the id of the entry.
findBestMatch(kb, query) ==
  LET r == retrieveArticles(kb, query, 1)
      matches == r.result.matches
  IN [kb |-> r.kb,
      result |-> IF Len(matches) > 0
                 THEN getArticleById(r.kb, matches[1].id).result
                 ELSE NullArticle]

\* The article array of the retrieval module.  Article 5 is the article of
\* the documented example; articles 2 and 3 score alike for every query; the
\* title of article 1 holds the same word twice.
EnhancedKB ==
  << [id |-> 1, tags |-> << <<"b">>, <<"a", "b">> >>,
      product |-> << >>, title |-> <<"a", " ", "a">>],
     [id |-> 2, tags |-> << <<"a", " ", "b">> >>,
      product |-> <<"b">>, title |-> << >>],
     [id |-> 3, tags |-> << <<"a", " ", "b">> >>,
      product |-> <<"b">>, title |-> << >>],
     [id |-> 4, tags |-> << <<"a">>, <<"b">> >>,
      product |-> <<"A">>, title |-> <<"b", " ", "a">>],
     [id |-> 5, tags |-> << << "e", "m", "a", "i", "l" >>, << "s", "m", "t", "p" >> >>,
      product |-> << "O", "u", "t", "l", "o", "o", "k" >>,
      title |-> << "E", "m", "a", "i", "l", " ", "N", "o", "t", " ", "S", "e", "n", "d", "i", "n", "g" >>] >>

\* The view of a panel that shows nothing.
NoChat == [chatState |-> "none"]

(***************************************************************************)
(* The legacy StepManager (src/src/sidepanel.js, "Step Logic Module"), as  *)
(* functions of its fields sm.  A step is a string or an object with a     *)
(* text and an optional say_to_customer (0: absent).                       *)
(***************************************************************************)
\* null, where the StepManager expects an article.
NoLegacyArticle == [id |-> 0, steps |-> << >>]

LegacyStep(k) ==
  IF k % 3 = 1 THEN [kind |-> "string", text |-> k, say_to_customer |-> 0]
  ELSE IF k % 3 = 2 THEN [kind |-> "object", text |-> k, say_to_customer |-> 10 + k]
  ELSE [kind |-> "object", text |-> k, say_to_customer |-> 0]

\* The articles handed to setArticle: article n has n - 1 steps, the
\* longest MaxLegacySteps.
MaxLegacySteps == MaxSteps + 2

LegacyArticles ==
  {[id |-> n, steps |-> [k \in 1..(n - 1) |-> LegacyStep(k)]] :
     n \in 1..(MaxLegacySteps + 1)}

\* The fields after the constructor.
NewStepManager ==
  [currentArticle |-> NoLegacyArticle, currentStepIndex |-> 0, maxSteps |-> 0]

StepManager_setArticle(sm, article) ==
  [sm |-> [currentArticle |-> article,
           currentStepIndex |-> 0,
           maxSteps |-> Len(article.steps)],
   result |-> [none |-> TRUE]]

\* steps[currentStepIndex] is undefined when the index is not one of the
\* array: reading a property of it raises a TypeError.
StepManager_getCurrentStep(sm) ==
  IF sm.currentArticle = NoLegacyArticle
  THEN [sm |-> sm, result |-> [null |-> TRUE]]
  ELSE IF sm.currentStepIndex + 1 \notin DOMAIN sm.currentArticle.steps
  THEN [sm |-> sm, result |-> [raised |-> TRUE]]
  ELSE LET step == sm.currentArticle.steps[sm.currentStepIndex + 1]
           stepText == IF step.kind = "string" THEN step.text
                       ELSE IF step.say_to_customer # 0
                       THEN step.say_to_customer ELSE step.text
       IN [sm |-> sm,
           result |-> [stepNumber |-> sm.currentStepIndex + 1,
                       totalSteps |-> sm.maxSteps,
                       stepText |-> stepText,
                       isFirst |-> sm.currentStepIndex = 0,
                       isLast |-> sm.currentStepIndex = sm.maxSteps - 1,
                       article |-> sm.currentArticle.id]]

\* Mutant: nextStep that stops one step late (maxSteps for maxSteps - 1).
StepManager_nextStepLate(sm) ==
  IF sm.currentArticle = NoLegacyArticle \/ sm.currentStepIndex >= sm.maxSteps
  THEN [sm |-> sm, result |-> FALSE]
  ELSE [sm |-> [sm EXCEPT !.currentStepIndex = @ + 1], result |-> TRUE]

StepManager_nextStep(sm) ==
  IF sm.currentArticle = NoLegacyArticle \/ sm.currentStepIndex >= sm.maxSteps - 1
  THEN [sm |-> sm, result |-> FALSE]
  ELSE [sm |-> [sm EXCEPT !.currentStepIndex = @ + 1], result |-> TRUE]

StepManager_previousStep(sm) ==
  IF sm.currentArticle = NoLegacyArticle \/ sm.currentStepIndex <= 0
  THEN [sm |-> sm, result |-> FALSE]
  ELSE [sm |-> [sm EXCEPT !.currentStepIndex = @ - 1], result |-> TRUE]

StepManager_reset(sm) ==
  [sm |-> [sm EXCEPT !.currentStepIndex = 0], result |-> [none |-> TRUE]]

StepManager_clear(sm) ==
  [sm |-> [currentArticle |-> NoLegacyArticle, currentStepIndex |-> 0,
           maxSteps |-> 0],
   result |-> [none |-> TRUE]]

StepManager_hasArticle(sm) ==
  [sm |-> sm, result |-> sm.currentArticle # NoLegacyArticle]

StepManager_getArticle(sm) ==
  [sm |-> sm, result |-> sm.currentArticle]

(***************************************************************************)
(* The system: one action per operation.                                   *)
(***************************************************************************)
InSession == state.selectedArticleId # NoArticle

\* The state holds completed ids, failure records and a fallback attempt.
HoldsSessionData(s) ==
  /\ s.completedStepIds # << >>
  /\ s.failureHistory # << >>
  /\ Len(s.attemptedPaths) > 1

Init ==
  /\ state = reset(NoState)
  /\ currentArticle = NoArticle
  /\ lastCall = [op |-> "constructor"]
  /\ lastResult = [none |-> TRUE]
  /\ prevReset = "no"
  /\ contCount = -1
  /\ failCalls = 0
  /\ enhancedKnowledgeBase = EnhancedKB
  /\ chat = NoChat
  /\ stepManager = NewStepManager

\* The call and what it returned.
Log(call, result) ==
  /\ lastCall' = call
  /\ lastResult' = result
  /\ prevReset' = IF lastCall.op # "reset" THEN "no"
                  ELSE IF lastCall.discarded THEN "dirty" ELSE "clean"

\* A call that is none of the legacy StepManager's.
Record(call, result) ==
  /\ Log(call, result)
  /\ UNCHANGED stepManager

\* A call of a runner method: the retrieval module and the view stay as
\* they are.
Called(call, result) ==
  /\ Record(call, result)
  /\ UNCHANGED << enhancedKnowledgeBase, chat >>

Reset ==
  /\ state' = reset(state)
  /\ currentArticle' = NoArticle
  /\ contCount' = -1
  /\ failCalls' = 0
  /\ Called([op |-> "reset", discarded |-> HoldsSessionData(state)],
            [none |-> TRUE])

StartArticle ==
  \E articleId \in ArticleIds :
    LET r == startArticle(state, articleId, articleId, Now)
    IN /\ state' = r.state
       /\ currentArticle' = articleId
       /\ contCount' = 0
       /\ failCalls' = 0
       /\ Called([op |-> "startArticle", articleId |-> articleId,
                  discarded |-> HoldsSessionData(state)], r.result)

\* The indices of the steps whose Continue control can deliver a click now:
\* the step on display, and the step of the click just handled, whose
\* control was not disabled (a double click, a click on a stale control).
ContinueControls ==
  {state.currentStepIndex} \cup
    (IF lastCall.op = "continue" THEN {lastCall.control} ELSE {})

\* A click on the Continue control of step `control`.  The handler takes no
\* notice of which control delivered the click.
Continue ==
  \E control \in ContinueControls :
    LET r == continue(state, currentArticle)
    IN /\ state' = r.state
       /\ contCount' = IF contCount < 0 THEN -1
                       ELSE IF contCount > MaxSteps THEN contCount
                       ELSE contCount + 1
       /\ Called([op |-> "continue",
                   step |-> getCurrentStep(state, currentArticle),
                   control |-> control],
                 r.result)
       /\ UNCHANGED << currentArticle, failCalls >>

Back ==
  LET r == back(state)
  IN /\ state' = r.state
     /\ contCount' = -1
     /\ Called([op |-> "back"], r.result)
     /\ UNCHANGED << currentArticle, failCalls >>

RecordFailure ==
  /\ Len(state.failureHistory) < MaxFailures
  /\ \E reasonCategory \in ReasonCategories, note \in Notes :
       LET stepId == getCurrentStep(state, currentArticle).id
           r == recordFailure(state, stepId, reasonCategory, note, Now)
       IN /\ state' = r.state
          /\ failCalls' = failCalls + 1
          /\ contCount' = -1
          /\ Called([op |-> "recordFailure"], r.result)
          /\ UNCHANGED currentArticle

\* The failure handler: same-article switch keeps currentArticle, the
\* cross-article switch replaces it before the call.
SwitchToFallback ==
  /\ InSession
  /\ Len(state.attemptedPaths) < MaxPaths
  /\ \E fallbackId \in FallbackIds, article \in ArticleIds :
       LET texts == completedStepTexts(state, currentArticle)
           r == switchToFallback(state, fallbackId, article, texts, Now)
       IN /\ state' = r.state
          /\ currentArticle' = article
          /\ contCount' = -1
          /\ Called([op |-> "switchToFallback", fallbackId |-> fallbackId,
                     article |-> article, texts |-> texts], r.result)
          /\ UNCHANGED failCalls

GetCurrentStep ==
  /\ Called([op |-> "getCurrentStep"],
            [step |-> getCurrentStep(state, currentArticle)])
  /\ UNCHANGED << state, currentArticle, contCount, failCalls >>

IsComplete ==
  /\ Called([op |-> "isComplete"],
            [complete |-> isComplete(state, currentArticle)])
  /\ UNCHANGED << state, currentArticle, contCount, failCalls >>

GetCompletionSummary ==
  /\ Called([op |-> "getCompletionSummary"], getCompletionSummary(state, Now))
  /\ UNCHANGED << state, currentArticle, contCount, failCalls >>

\* renderCurrentStep of the panel.  A call of a method the runner does not
\* define raises a TypeError, which ends the render; skippedCount -1 is a
\* count that was never read.
RenderCurrentStep ==
  LET step == getCurrentStep(state, currentArticle)
      result ==
        IF step = NullStep \/ isComplete(state, currentArticle)
        THEN [shown |-> "completion", raised |-> FALSE, skippedCount |-> 0]
        ELSE IF "getSkippedStepsCount" \notin StepperMethods
        THEN [shown |-> "step", raised |-> TRUE, skippedCount |-> -1]
        ELSE [shown |-> "step", raised |-> FALSE, skippedCount |-> 0]
  IN /\ Called([op |-> "renderCurrentStep"], result)
     /\ UNCHANGED << state, currentArticle, contCount, failCalls >>

Next ==
  \/ Reset
  \/ StartArticle
  \/ Continue
  \/ Back
  \/ RecordFailure
  \/ SwitchToFallback
  \/ GetCurrentStep
  \/ IsComplete
  \/ GetCompletionSummary
  \/ RenderCurrentStep

Spec == Init /\ [][Next]_vars

(***************************************************************************)
(* The fallback selection on its own: a failure form filled in for an      *)
(* article that has just been started, then the selection.                 *)
(***************************************************************************)
SelectReasons == {"other", "printer"}
SelectNotes == {"x", "email"}

\* The lists getAllArticles() may hand over: every part of the catalog, in
\* three orders.
CatalogOrders == { <<1, 2, 3, 4>>, <<4, 3, 2, 1>>, <<2, 4, 1, 3>> }
ArticleLists ==
  {SelectSeq(o, LAMBDA a : a \in S) : o \in CatalogOrders, S \in SUBSET CatalogIds}

InitSelect ==
  /\ \E a \in CatalogIds :
       /\ state = startArticle(reset(NoState), a, a, Now).state
       /\ currentArticle = a
  /\ \E allArticles \in ArticleLists, reasonCategory \in SelectReasons,
        note \in SelectNotes :
       lastCall = [op |-> "failureForm", allArticles |-> allArticles,
                   reasonCategory |-> reasonCategory, note |-> note]
  /\ lastResult = [none |-> TRUE]
  /\ prevReset = "no"
  /\ contCount = 0
  /\ failCalls = 0
  /\ enhancedKnowledgeBase = EnhancedKB
  /\ chat = NoChat
  /\ stepManager = NewStepManager

SelectFallback ==
  /\ lastCall.op = "failureForm"
  /\ Called([op |-> "selectFallback", article |-> currentArticle,
             allArticles |-> lastCall.allArticles,
             reasonCategory |-> lastCall.reasonCategory,
             note |-> lastCall.note],
            selectFallback(currentArticle, lastCall.allArticles,
                           lastCall.reasonCategory, lastCall.note))
  /\ UNCHANGED << state, currentArticle, contCount, failCalls >>

NextSelect == SelectFallback

SpecSelect == InitSelect /\ [][NextSelect]_vars

(***************************************************************************)
(* The retrieval on its own: a query is typed, searched, and searched      *)
(* once more.                                                              *)
(***************************************************************************)
QueryChars == {"a", "A", "b", " ", ",", "_"}
ShortQueries == UNION {[1..k -> QueryChars] : k \in 0..MaxQueryLen}
ExampleQueries ==
  { << "o", "u", "t", "l", "o", "o", "k", " ", "e", "m", "a", "i", "l", " ", "s", "m", "t", "p" >>,
    << "O", "u", "t", "l", "o", "o", "k", ",", " ", "E", "m", "a", "i", "l", "!" >>,
    << "o", "u", "t", "l", "o", "o", "k", " ", "e", "m", "a", "i", "l" >>,
    << "x", "y", "z" >> }
Queries == ShortQueries \cup ExampleQueries

InitRetrieve ==
  /\ state = reset(NoState)
  /\ currentArticle = NoArticle
  /\ \E query \in Queries, topN \in 0..MaxTopN :
       lastCall = [op |-> "typed", query |-> query, topN |-> topN]
  /\ lastResult = [none |-> TRUE]
  /\ prevReset = "no"
  /\ contCount = -1
  /\ failCalls = 0
  /\ enhancedKnowledgeBase = EnhancedKB
  /\ chat = NoChat
  /\ stepManager = NewStepManager

RetrieveArticles ==
  /\ lastCall.op = "typed" \/ (lastCall.op = "retrieveArticles" /\ ~lastCall.again)
  /\ LET r == retrieveArticles(enhancedKnowledgeBase, lastCall.query, lastCall.topN)
     IN /\ enhancedKnowledgeBase' = r.kb
        /\ Record([op |-> "retrieveArticles", query |-> lastCall.query,
                   topN |-> lastCall.topN,
                   again |-> lastCall.op = "retrieveArticles",
                   scored |-> r.scored],
                  r.result)
  /\ UNCHANGED << state, currentArticle, contCount, failCalls, chat >>

\* The ids asked for: those of the articles, and two that no article has.
LookupIds == 0..(Len(EnhancedKB) + 1)

GetArticleById ==
  /\ lastCall.op = "typed"
  /\ \E id \in LookupIds :
       LET r == getArticleById(enhancedKnowledgeBase, id)
       IN /\ enhancedKnowledgeBase' = r.kb
          /\ Record([op |-> "getArticleById", id |-> id],
                    [article |-> r.result])
  /\ UNCHANGED << state, currentArticle, contCount, failCalls, chat >>

FindBestMatch ==
  /\ lastCall.op = "typed"
  /\ LET r == findBestMatch(enhancedKnowledgeBase, lastCall.query)
     IN /\ enhancedKnowledgeBase' = r.kb
        /\ Record([op |-> "findBestMatch", query |-> lastCall.query],
                  [article |-> r.result])
  /\ UNCHANGED << state, currentArticle, contCount, failCalls, chat >>

NextRetrieve ==
  \/ RetrieveArticles
  \/ GetArticleById
  \/ FindBestMatch

SpecRetrieve == InitRetrieve /\ [][NextRetrieve]_vars


(***************************************************************************)
(* A session that is only continued: it starts in a state the navigation   *)
(* can have produced, and from there the Continue control is the only one  *)
(* used; the panel goes on reading the step and the completion.            *)
(***************************************************************************)
\* continue() called n times in a row.
RECURSIVE continueTimes(_, _, _)
continueTimes(s, article, n) ==
  IF n = 0 THEN s
  ELSE continueTimes(continue(s, article).state, article, n - 1)

\* The ids of the paths of an article: "main" and its fallbacks.
PathsOf(article) ==
  {"main"} \cup {KB[article].fallbacks[i].id :
                   i \in 1..Len(KB[article].fallbacks)}

\* The state after startArticle, k continues, an optional back, an optional
\* switch to the path `path`, and j continues.
SessionAfter(article, k, wentBack, path, j) ==
  LET s0 == startArticle(reset(NoState), article, article, Now).state
      s1 == continueTimes(s0, article, k)
      s2 == IF wentBack THEN back(s1).state ELSE s1
      s3 == IF path = "main" THEN s2
            ELSE switchToFallback(s2, path, article,
                                  completedStepTexts(s2, article), Now).state
  IN continueTimes(s3, article, j)

InitProgress ==
  /\ \E article \in ArticleIds, k \in 0..MaxSteps, wentBack \in BOOLEAN,
        j \in 0..MaxSteps :
       \E path \in PathsOf(article) :
         /\ state = SessionAfter(article, k, wentBack, path, j)
         /\ currentArticle = article
  /\ lastCall = [op |-> "inSteps"]
  /\ lastResult = [none |-> TRUE]
  /\ prevReset = "no"
  /\ contCount = 0
  /\ failCalls = 0
  /\ enhancedKnowledgeBase = EnhancedKB
  /\ chat = NoChat
  /\ stepManager = NewStepManager

NextProgress ==
  \/ Continue
  \/ GetCurrentStep
  \/ IsComplete

\* The user keeps pressing Continue: a click that is possible is made.
SpecProgress == InitProgress /\ [][NextProgress]_vars /\ WF_vars(Continue)

(***************************************************************************)
(* The chat flow (src/src/retrieval.js, "Chat-Based Flow").  The view is   *)
(* what the conversation offers to click: every step message keeps its     *)
(* buttons, and only the Continue button created last is ever disabled.    *)
(* A submitted query waits for the typing delay; its continuation runs     *)
(* when the timer fires.                                                   *)
(***************************************************************************)
\* No query is waiting.
NoPending == [waiting |-> FALSE, matches |-> << >>, resetSince |-> FALSE]

\* The view after init(): the welcome message and an enabled input.
\*   pending.resetSince  the user has confirmed Reset since the query was sent
\*   cards               the article cards in the conversation
\*   currentContinue     currentContinueButton is in the conversation, enabled
\*   staleContinue       an earlier Continue button is in the conversation, enabled
\*   backShown, didntWorkShown   some step message carries that button
\*   modalOpen           failureModal is displayed
ChatInitial ==
  [chatState |-> "initial",
   inputDisabled |-> FALSE,
   pending |-> NoPending,
   cards |-> {},
   currentContinue |-> FALSE,
   staleContinue |-> FALSE,
   backShown |-> FALSE,
   didntWorkShown |-> FALSE,
   modalOpen |-> FALSE]

\* The match lists retrieval.search(query) may resolve to: none, one
\* article, several articles.
ChatMatchLists == { << >>, <<1>>, <<4>>, <<2, 3>> }

\* retrieval.getAllArticles(): the catalog in its order.
AllArticles == <<1, 2, 3, 4>>

showCompletionInChat(view) ==
  [view EXCEPT !.chatState = "completed", !.inputDisabled = FALSE]

showCurrentStepInChat(s, article, view) ==
  IF getCurrentStep(s, article) = NullStep \/ isComplete(s, article)
  THEN showCompletionInChat(view)
  ELSE [view EXCEPT !.staleContinue = @ \/ view.currentContinue,
                    !.currentContinue = TRUE,
                    !.backShown = @ \/ (getState(s).currentStepIndex > 0),
                    !.didntWorkShown = TRUE]

\* getArticle(articleId) finds every article that was offered.
selectArticleInChat(s, articleId, view) ==
  LET r == startArticle(s, articleId, articleId, Now)
  IN [state |-> r.state, article |-> articleId,
      chat |-> showCurrentStepInChat(r.state, articleId,
                                     [view EXCEPT !.chatState = "in-step"])]

\* The part of handleUserInput after the typing delay.
handleUserInputResumed(s, article, view) ==
  LET matches == view.pending.matches
      done == [view EXCEPT !.pending = NoPending]
  IN IF Len(matches) = 0
     THEN [state |-> s, article |-> article,
           chat |-> [done EXCEPT !.inputDisabled = FALSE]]
     ELSE IF Len(matches) = 1
     THEN LET r == selectArticleInChat(s, matches[1], view)
          IN [r EXCEPT !.chat.pending = NoPending]
     ELSE [state |-> s, article |-> article,
           chat |-> [done EXCEPT !.cards = @ \cup Range(matches),
                                 !.inputDisabled = TRUE]]

\* handleFailureSubmit of the chat flow.  step.id of a null step raises a
\* TypeError before anything is recorded.
handleFailureSubmitInChat(s, article, view, reason, note) ==
  LET step == getCurrentStep(s, article)
  IN IF step = NullStep
     THEN [state |-> s, article |-> article, chat |-> view,
           result |-> [raised |-> TRUE]]
     ELSE LET r1 == recordFailure(s, step.id, reason, note, Now)
              closed == [view EXCEPT !.modalOpen = FALSE]
              texts == completedStepTexts(r1.state, article)
              fallbackResult == selectFallback(article, AllArticles, reason, note)
              target == IF fallbackResult.type = "cross-article"
                        THEN fallbackResult.article ELSE article
              r2 == switchToFallback(r1.state, fallbackResult.fallback.id,
                                     target, texts, Now)
          IN IF fallbackResult.type = "escalation"
             THEN [state |-> r1.state, article |-> article, chat |-> closed,
                   result |-> [type |-> fallbackResult.type]]
             ELSE [state |-> r2.state, article |-> target,
                   chat |-> showCurrentStepInChat(r2.state, target, closed),
                   result |-> [type |-> fallbackResult.type]]

InitChat ==
  /\ state = reset(NoState)
  /\ currentArticle = NoArticle
  /\ lastCall = [op |-> "init"]
  /\ lastResult = [none |-> TRUE]
  /\ prevReset = "no"
  /\ contCount = -1
  /\ failCalls = 0
  /\ enhancedKnowledgeBase = EnhancedKB
  /\ chat = ChatInitial
  /\ stepManager = NewStepManager

\* What a handler of the chat flow leaves as it is.
ChatFrame == UNCHANGED << contCount, failCalls, enhancedKnowledgeBase >>

\* The user sends a query: handleUserInput up to the typing delay.  One
\* query waits at a time.
HandleUserInput ==
  /\ ~chat.inputDisabled
  /\ ~chat.modalOpen
  /\ ~chat.pending.waiting
  /\ \E matches \in ChatMatchLists :
       /\ chat' = [chat EXCEPT !.inputDisabled = TRUE,
                               !.pending = [waiting |-> TRUE,
                                            matches |-> matches,
                                            resetSince |-> FALSE]]
       /\ Record([op |-> "handleUserInput", matches |-> matches],
                 [none |-> TRUE])
  /\ UNCHANGED << state, currentArticle >>
  /\ ChatFrame

\* The typing delay is over: the rest of handleUserInput runs.
TypingDelayOver ==
  /\ chat.pending.waiting
  /\ LET r == handleUserInputResumed(state, currentArticle, chat)
     IN /\ state' = r.state
        /\ currentArticle' = r.article
        /\ chat' = r.chat
        /\ Record([op |-> "typingDelayOver", matches |-> chat.pending.matches,
                   resetSince |-> chat.pending.resetSince],
                  [none |-> TRUE])
  /\ ChatFrame

\* A click on an article card.
SelectArticleInChat ==
  /\ ~chat.modalOpen
  /\ \E articleId \in chat.cards :
       LET r == selectArticleInChat(state, articleId, chat)
       IN /\ state' = r.state
          /\ currentArticle' = r.article
          /\ chat' = r.chat
          /\ Record([op |-> "selectArticleInChat", articleId |-> articleId],
                    [none |-> TRUE])
  /\ ChatFrame

\* A click on a Continue button that is enabled, of whichever message.
HandleContinueInChat ==
  /\ ~chat.modalOpen
  /\ chat.currentContinue \/ chat.staleContinue
  /\ LET r == continue(state, currentArticle)
         disabled == [chat EXCEPT !.currentContinue = FALSE]
     IN /\ state' = r.state
        /\ chat' = IF r.result.completed THEN showCompletionInChat(disabled)
                   ELSE showCurrentStepInChat(r.state, currentArticle, disabled)
        /\ Record([op |-> "handleContinueInChat"], r.result)
  /\ UNCHANGED currentArticle
  /\ ChatFrame

\* A click on a Back button of whichever message.
HandleBackInChat ==
  /\ ~chat.modalOpen
  /\ chat.backShown
  /\ LET r == back(state)
     IN /\ state' = r.state
        /\ chat' = IF r.result.success
                   THEN showCurrentStepInChat(r.state, currentArticle, chat)
                   ELSE chat
        /\ Record([op |-> "handleBackInChat"], r.result)
  /\ UNCHANGED currentArticle
  /\ ChatFrame

\* A click on a "This didn't work" button of whichever message.
HandleDidntWorkInChat ==
  /\ ~chat.modalOpen
  /\ chat.didntWorkShown
  /\ chat' = [chat EXCEPT !.modalOpen = TRUE]
  /\ Record([op |-> "handleDidntWorkInChat"], [none |-> TRUE])
  /\ UNCHANGED << state, currentArticle >>
  /\ ChatFrame

\* The failure form is closed without being sent.
CancelFailure ==
  /\ chat.modalOpen
  /\ chat' = [chat EXCEPT !.modalOpen = FALSE]
  /\ Record([op |-> "cancelFailure"], [none |-> TRUE])
  /\ UNCHANGED << state, currentArticle >>
  /\ ChatFrame

\* The failure form is sent.
HandleFailureSubmitInChat ==
  /\ chat.modalOpen
  /\ Len(state.failureHistory) < MaxFailures
  /\ \E reason \in SelectReasons, note \in Notes :
       LET r == handleFailureSubmitInChat(state, currentArticle, chat,
                                          reason, note)
       IN /\ state' = r.state
          /\ currentArticle' = r.article
          /\ chat' = r.chat
          /\ Record([op |-> "handleFailureSubmitInChat",
                     step |-> getCurrentStep(state, currentArticle),
                     article |-> currentArticle], r.result)
  /\ ChatFrame

\* Reset, confirmed: the conversation is cleared, the waiting query is not.
HandleResetInChat ==
  /\ ~chat.modalOpen
  /\ state' = reset(state)
  /\ currentArticle' = NoArticle
  /\ chat' = [ChatInitial EXCEPT
                !.pending = IF chat.pending.waiting
                            THEN [chat.pending EXCEPT !.resetSince = TRUE]
                            ELSE NoPending]
  /\ Record([op |-> "handleResetInChat"], [none |-> TRUE])
  /\ ChatFrame

NextChat ==
  \/ HandleUserInput
  \/ TypingDelayOver
  \/ SelectArticleInChat
  \/ HandleContinueInChat
  \/ HandleBackInChat
  \/ HandleDidntWorkInChat
  \/ CancelFailure
  \/ HandleFailureSubmitInChat
  \/ HandleResetInChat

SpecChat == InitChat /\ [][NextChat]_vars

(***************************************************************************)
(* The side panel (src/src/sidepanel.js).  The view is which of the        *)
(* article list, the step card and the completion summary is on display,   *)
(* and whether the failure form is open; the step card carries the step    *)
(* controls.                                                               *)
(***************************************************************************)
PanelInitial == [shown |-> "articles", modalOpen |-> FALSE]

\* renderCurrentStep: the step card, or the completion summary.
renderCurrentStep(s, article, view) ==
  IF getCurrentStep(s, article) = NullStep \/ isComplete(s, article)
  THEN [view EXCEPT !.shown = "completion"]
  ELSE [view EXCEPT !.shown = "step"]

\* Mutant: a handler that switches to the other article whatever the answer
\* to the confirmation.
handleFailureSubmitSwitchesAnyway(s, article, view, reason, note, confirmed) ==
  LET step == getCurrentStep(s, article)
  IN IF step = NullStep
     THEN [state |-> s, article |-> article, chat |-> view,
           result |-> [raised |-> TRUE]]
     ELSE LET r1 == recordFailure(s, step.id, reason, note, Now)
              closed == [view EXCEPT !.modalOpen = FALSE]
              texts == completedStepTexts(r1.state, article)
              fallbackResult == selectFallback(article, AllArticles, reason, note)
              target == IF fallbackResult.type = "cross-article"
                        THEN fallbackResult.article ELSE article
              r2 == switchToFallback(r1.state, fallbackResult.fallback.id,
                                     target, texts, Now)
          IN IF fallbackResult.type = "escalation"
             THEN [state |-> r1.state, article |-> article, chat |-> closed,
                   result |-> [type |-> fallbackResult.type]]
             ELSE [state |-> r2.state, article |-> target,
                   chat |-> renderCurrentStep(r2.state, target, closed),
                   result |-> [type |-> fallbackResult.type]]

\* handleFailureSubmit of the side panel; confirmed is the answer to the
\* confirmation of a cross-article switch.
handleFailureSubmit(s, article, view, reason, note, confirmed) ==
  LET step == getCurrentStep(s, article)
  IN IF step = NullStep
     THEN [state |-> s, article |-> article, chat |-> view,
           result |-> [raised |-> TRUE]]
     ELSE LET r1 == recordFailure(s, step.id, reason, note, Now)
              closed == [view EXCEPT !.modalOpen = FALSE]
              texts == completedStepTexts(r1.state, article)
              fallbackResult == selectFallback(article, AllArticles, reason, note)
              target == IF fallbackResult.type = "cross-article"
                        THEN fallbackResult.article ELSE article
              r2 == switchToFallback(r1.state, fallbackResult.fallback.id,
                                     target, texts, Now)
          IN IF \/ fallbackResult.type = "escalation"
                \/ (fallbackResult.type = "cross-article" /\ ~confirmed)
             THEN [state |-> r1.state, article |-> article, chat |-> closed,
                   result |-> [type |-> fallbackResult.type]]
             ELSE [state |-> r2.state, article |-> target,
                   chat |-> renderCurrentStep(r2.state, target, closed),
                   result |-> [type |-> fallbackResult.type]]

InitPanel ==
  /\ state = reset(NoState)
  /\ currentArticle = NoArticle
  /\ lastCall = [op |-> "init"]
  /\ lastResult = [none |-> TRUE]
  /\ prevReset = "no"
  /\ contCount = -1
  /\ failCalls = 0
  /\ enhancedKnowledgeBase = EnhancedKB
  /\ chat = PanelInitial
  /\ stepManager = NewStepManager

\* What a handler of the side panel leaves as it is.
PanelFrame == UNCHANGED << contCount, failCalls, enhancedKnowledgeBase >>

\* A click on an item of the article list.
SelectArticle ==
  /\ chat.shown = "articles"
  /\ \E articleId \in CatalogIds :
       LET r == startArticle(state, articleId, articleId, Now)
       IN /\ state' = r.state
          /\ currentArticle' = articleId
          /\ chat' = renderCurrentStep(r.state, articleId, chat)
          /\ Record([op |-> "selectArticle", articleId |-> articleId], r.result)
  /\ PanelFrame

HandleContinue ==
  /\ chat.shown = "step"
  /\ ~chat.modalOpen
  /\ LET r == continue(state, currentArticle)
     IN /\ state' = r.state
        /\ chat' = IF r.result.completed
                   THEN [chat EXCEPT !.shown = "completion"]
                   ELSE renderCurrentStep(r.state, currentArticle, chat)
        /\ Record([op |-> "handleContinue"], r.result)
  /\ UNCHANGED currentArticle
  /\ PanelFrame

\* The Back button is disabled on the first step.
HandleBack ==
  /\ chat.shown = "step"
  /\ ~chat.modalOpen
  /\ state.currentStepIndex # 0
  /\ LET r == back(state)
     IN /\ state' = r.state
        /\ chat' = IF r.result.success
                   THEN renderCurrentStep(r.state, currentArticle, chat)
                   ELSE chat
        /\ Record([op |-> "handleBack"], r.result)
  /\ UNCHANGED currentArticle
  /\ PanelFrame

HandleDidntWork ==
  /\ chat.shown = "step"
  /\ ~chat.modalOpen
  /\ chat' = [chat EXCEPT !.modalOpen = TRUE]
  /\ Record([op |-> "handleDidntWork"], [none |-> TRUE])
  /\ UNCHANGED << state, currentArticle >>
  /\ PanelFrame

\* Close, Cancel, Escape or a click on the background of the form.
CloseFailureModal ==
  /\ chat.modalOpen
  /\ chat' = [chat EXCEPT !.modalOpen = FALSE]
  /\ Record([op |-> "closeFailureModal"], [none |-> TRUE])
  /\ UNCHANGED << state, currentArticle >>
  /\ PanelFrame

HandleFailureSubmit ==
  /\ chat.modalOpen
  /\ Len(state.failureHistory) < MaxFailures
  /\ \E reason \in SelectReasons, note \in Notes, confirmed \in BOOLEAN :
       LET r == handleFailureSubmit(state, currentArticle, chat,
                                    reason, note, confirmed)
       IN /\ state' = r.state
          /\ currentArticle' = r.article
          /\ chat' = r.chat
          /\ Record([op |-> "handleFailureSubmit", reason |-> reason,
                     note |-> note, confirmed |-> confirmed], r.result)
  /\ PanelFrame

\* Reset, confirmed.
HandleReset ==
  /\ chat.shown # "articles"
  /\ ~chat.modalOpen
  /\ state' = reset(state)
  /\ currentArticle' = NoArticle
  /\ chat' = [chat EXCEPT !.shown = "articles"]
  /\ Record([op |-> "handleReset"], [none |-> TRUE])
  /\ PanelFrame

HandleBackToArticles ==
  /\ chat.shown # "articles"
  /\ ~chat.modalOpen
  /\ state' = reset(state)
  /\ currentArticle' = NoArticle
  /\ chat' = [chat EXCEPT !.shown = "articles"]
  /\ Record([op |-> "handleBackToArticles"], [none |-> TRUE])
  /\ PanelFrame

NextPanel ==
  \/ SelectArticle
  \/ HandleContinue
  \/ HandleBack
  \/ HandleDidntWork
  \/ CloseFailureModal
  \/ HandleFailureSubmit
  \/ HandleReset
  \/ HandleBackToArticles

SpecPanel == InitPanel /\ [][NextPanel]_vars

(***************************************************************************)
(* The legacy StepManager on its own: any sequence of calls of its         *)
(* methods.                                                                *)
(***************************************************************************)
InitLegacy ==
  /\ state = reset(NoState)
  /\ currentArticle = NoArticle
  /\ lastCall = [op |-> "constructor"]
  /\ lastResult = [none |-> TRUE]
  /\ prevReset = "no"
  /\ contCount = -1
  /\ failCalls = 0
  /\ enhancedKnowledgeBase = EnhancedKB
  /\ chat = NoChat
  /\ stepManager = NewStepManager

\* What a method of the StepManager leaves as it is.
LegacyFrame ==
  UNCHANGED << state, currentArticle, contCount, failCalls,
               enhancedKnowledgeBase, chat >>

\* The record of a call of a method: the fields it found, what it returned.
LegacyCall(op, result) ==
  /\ Log([op |-> op, before |-> stepManager], [value |-> result])
  /\ LegacyFrame

SetArticle ==
  \E article \in LegacyArticles :
    LET r == StepManager_setArticle(stepManager, article)
    IN /\ stepManager' = r.sm
       /\ LegacyCall("setArticle", r.result)

LegacyGetCurrentStep ==
  LET r == StepManager_getCurrentStep(stepManager)
  IN /\ stepManager' = r.sm
     /\ LegacyCall("getCurrentStep", r.result)

NextStep ==
  LET r == StepManager_nextStep(stepManager)
  IN /\ stepManager' = r.sm
     /\ LegacyCall("nextStep", r.result)

PreviousStep ==
  LET r == StepManager_previousStep(stepManager)
  IN /\ stepManager' = r.sm
     /\ LegacyCall("previousStep", r.result)

LegacyReset ==
  LET r == StepManager_reset(stepManager)
  IN /\ stepManager' = r.sm
     /\ LegacyCall("resetSteps", r.result)

Clear ==
  LET r == StepManager_clear(stepManager)
  IN /\ stepManager' = r.sm
     /\ LegacyCall("clear", r.result)

HasArticle ==
  LET r == StepManager_hasArticle(stepManager)
  IN /\ stepManager' = r.sm
     /\ LegacyCall("hasArticle", r.result)

GetArticle ==
  LET r == StepManager_getArticle(stepManager)
  IN /\ stepManager' = r.sm
     /\ LegacyCall("getArticle", r.result)

NextLegacy ==
  \/ SetArticle
  \/ LegacyGetCurrentStep
  \/ NextStep
  \/ PreviousStep
  \/ LegacyReset
  \/ Clear
  \/ HasArticle
  \/ GetArticle

SpecLegacy == InitLegacy /\ [][NextLegacy]_vars

(***************************************************************************)
(* Properties of the Step Runner.                                          *)
(***************************************************************************)
ActiveSteps == getStepsForActivePath(state, currentArticle)
CompletedIds(s) == Range(s.completedStepIds)
IsPrefix(a, b) == Len(a) <= Len(b) /\ a = SubSeq(b, 1, Len(a))

\* C1: in every reachable state currentStepIndex is an integer between 0 and
\* the number of steps of the active path of the article being navigated, and
\* it equals that number exactly when the path is complete.
C1_IndexInRange ==
  /\ state.currentStepIndex \in 0..Len(ActiveSteps)
  /\ (state.currentStepIndex = Len(ActiveSteps)) <=> isComplete(state, currentArticle)

\* A fallback path run to its end.
C1_Witness ==
  /\ state.activePath # "main"
  /\ Len(ActiveSteps) > 1
  /\ state.currentStepIndex = Len(ActiveSteps)
  /\ lastCall.op = "continue"

\* C2: on an article with n >= 1 main steps, the k-th continue in a row after
\* a fresh startArticle returns completed = (k >= n), isComplete is false
\* before the n-th call and true from it on, and a continue after the n-th
\* leaves currentStepIndex and completedStepIds as they are.
MainLen == IF currentArticle = NoArticle THEN 0 ELSE Len(KB[currentArticle].steps)

C2_ContinueCompletes ==
  /\ [](contCount >= 0 /\ MainLen >= 1 =>
          /\ isComplete(state, currentArticle) <=> (contCount >= MainLen)
          /\ lastCall.op = "continue" =>
               (lastResult.completed <=> (contCount >= MainLen)))
  /\ [][contCount >= MainLen /\ MainLen >= 1 /\ lastCall'.op = "continue" =>
          /\ lastResult'.completed
          /\ state'.currentStepIndex = state.currentStepIndex
          /\ state'.completedStepIds = state.completedStepIds]_vars

\* The n-th continue in a row on the article with the longest main path.
C2_Witness ==
  /\ lastCall.op = "continue"
  /\ MainLen = MaxSteps
  /\ contCount = MainLen
  /\ lastResult.completed

\* C3: back() at currentStepIndex 0 returns success=false and leaves the whole
\* runner state unchanged; back() at a positive index returns success=true and
\* decrements the index by exactly one.
C3_BackAtFirstStep ==
  [][lastCall'.op = "back" =>
       IF state.currentStepIndex = 0
       THEN ~lastResult'.success /\ state' = state
       ELSE /\ lastResult'.success
            /\ state' = [state EXCEPT !.currentStepIndex = @ - 1]]_vars

\* A refused back() in a session that has completed steps.
C3_Witness ==
  /\ lastCall.op = "back"
  /\ ~lastResult.success
  /\ state.currentStepIndex = 0
  /\ state.completedStepIds # << >>

\* C4: within a session completedStepIds never loses an element: continue,
\* back, recordFailure, switchToFallback and getCompletionSummary leave a
\* superset of the set they found.
C4_CompletedOnlyGrows ==
  [][lastCall'.op \in {"continue", "back", "recordFailure", "switchToFallback",
                       "getCompletionSummary"} =>
       CompletedIds(state) \subseteq CompletedIds(state')]_vars

\* back() returned to a step whose completion is still recorded.
C4_Witness ==
  /\ lastCall.op = "back"
  /\ lastResult.success
  /\ getCurrentStep(state, currentArticle).id \in CompletedIds(state)

\* C5: only continue adds to completedStepIds, and one continue adds at most
\* the id of the step that was current when it was called.
C5_OnlyContinueAdds ==
  [][IF lastCall'.op = "continue"
     THEN LET step == getCurrentStep(state, currentArticle)
          IN CompletedIds(state') \subseteq
               CompletedIds(state) \cup (IF step = NullStep THEN {} ELSE {step.id})
     ELSE CompletedIds(state') \subseteq CompletedIds(state)]_vars

\* A switch to a fallback whose first step repeats a completed text: the
\* step is not marked completed by the switch.
C5_Witness ==
  /\ lastCall.op = "switchToFallback"
  /\ getCurrentStep(state, currentArticle) # NullStep
  /\ getCurrentStep(state, currentArticle).text \in Range(lastCall.texts)
  /\ getCurrentStep(state, currentArticle).id \notin CompletedIds(state)

\* C6: recordFailure is append-only: after k calls in a session the history
\* has k records in call order, and no operation other than reset and
\* startArticle removes or reorders a record.
C6_FailureHistoryAppendOnly ==
  /\ [](Len(state.failureHistory) = failCalls)
  /\ [][lastCall'.op \notin {"reset", "startArticle"} =>
          /\ IsPrefix(state.failureHistory, state'.failureHistory)
          /\ lastCall'.op = "recordFailure" =>
               state'.failureHistory = Append(state.failureHistory, lastResult')]_vars

\* Two failures recorded on different paths with navigation in between.
C6_Witness ==
  /\ failCalls = 2
  /\ state.failureHistory[1] # state.failureHistory[2]
  /\ state.activePath # "main"
  /\ lastCall.op = "back"

\* C7: recordFailure always returns its record and changes nothing but
\* failureHistory, in every state including Idle and Complete.
C7_RecordFailureFrame ==
  [][lastCall'.op = "recordFailure" =>
       /\ state' = [state EXCEPT !.failureHistory = state'.failureHistory]
       /\ Len(state'.failureHistory) = Len(state.failureHistory) + 1
       /\ lastResult' = state'.failureHistory[Len(state'.failureHistory)]]_vars

\* A failure recorded on a completed path, past its first step.
C7_Witness ==
  /\ lastCall.op = "recordFailure"
  /\ InSession
  /\ state.currentStepIndex > 0
  /\ isComplete(state, currentArticle)

\* C8: after startArticle(articleId, article), from any prior state, the
\* state is the start of the main path of articleId with nothing completed,
\* no failure and the single attempted path "main", and the call returned the
\* number of main steps and the first main step.
C8_StartArticleState ==
  lastCall.op = "startArticle" =>
    /\ state.selectedArticleId = lastCall.articleId
    /\ state.activePath = "main"
    /\ state.currentStepIndex = 0
    /\ state.completedStepIds = << >>
    /\ state.failureHistory = << >>
    /\ Len(state.attemptedPaths) = 1
    /\ state.attemptedPaths[1].path = "main"
    /\ lastResult.totalSteps = Len(KB[lastCall.articleId].steps)
    /\ lastResult.currentStep =
         IF KB[lastCall.articleId].steps = << >> THEN NullStep
         ELSE KB[lastCall.articleId].steps[1]

\* startArticle called in the middle of a session that held data.
C8_Witness ==
  /\ lastCall.op = "startArticle"
  /\ lastCall.discarded
  /\ prevReset = "no"

\* C9: reset() followed by startArticle(id, article) yields, timestamps
\* ignored, the state startArticle(id, article) yields on a newly constructed
\* runner: nothing of the earlier session is present.
StripTimes(s) ==
  [s EXCEPT !.attemptedPaths = [i \in 1..Len(@) |-> @[i].path],
            !.failureHistory = [i \in 1..Len(@) |->
                                  [stepId |-> @[i].stepId,
                                   reasonCategory |-> @[i].reasonCategory,
                                   note |-> @[i].note]]]

C9_NoLeakAcrossReset ==
  lastCall.op = "startArticle" /\ prevReset # "no" =>
    StripTimes(state) =
      StripTimes(startArticle(reset(NoState), lastCall.articleId,
                              lastCall.articleId, Now).state)

\* startArticle right after a reset() that discarded a session with
\* completed steps, failures and a fallback attempt.
C9_Witness ==
  /\ lastCall.op = "startArticle"
  /\ prevReset = "dirty"

\* C10: switchToFallback skips exactly the longest leading run of fallback
\* steps whose text is in completedStepTextsSoFar: the index afterwards and
\* the returned skipped count both equal the length of that run.
RECURSIVE LeadingRun(_, _)
LeadingRun(steps, texts) ==
  IF steps = << >> \/ Head(steps).text \notin Range(texts) THEN 0
  ELSE 1 + LeadingRun(Tail(steps), texts)

C10_SkipsLeadingRun ==
  lastCall.op = "switchToFallback" =>
    /\ state.currentStepIndex = LeadingRun(ActiveSteps, lastCall.texts)
    /\ lastResult.skippedSteps = LeadingRun(ActiveSteps, lastCall.texts)

\* C11: switchToFallback(fallbackId, article, ...) sets activePath to
\* fallbackId, restarts currentStepIndex at 0, appends exactly one entry for
\* fallbackId at the end of attemptedPaths, and leaves selectedArticleId,
\* failureHistory and the earlier attemptedPaths entries unchanged.
C11_SwitchToFallbackFrame ==
  [][lastCall'.op = "switchToFallback" =>
       /\ state'.activePath = lastCall'.fallbackId
       /\ state'.currentStepIndex = 0
       /\ Len(state'.attemptedPaths) = Len(state.attemptedPaths) + 1
       /\ IsPrefix(state.attemptedPaths, state'.attemptedPaths)
       /\ state'.attemptedPaths[Len(state'.attemptedPaths)].path = lastCall'.fallbackId
       /\ state'.selectedArticleId = state.selectedArticleId
       /\ state'.failureHistory = state.failureHistory]_vars

\* A switch made past the first step of a path, after a recorded failure.
C11_Witness ==
  /\ lastCall.op = "switchToFallback"
  /\ state.activePath = lastCall.fallbackId
  /\ state.currentStepIndex = 0
  /\ state.completedStepIds # << >>
  /\ state.failureHistory # << >>
  /\ Len(state.attemptedPaths) = 2
  /\ state.attemptedPaths[1].path = "main"

\* C12: selectFallback returns type same-article carrying the first fallback
\* path of the current article whenever that article defines at least one
\* fallback path, whatever reasonCategory, note and allArticles are; a type
\* other than same-article is returned only when it defines none.
C12_OwnFallbackFirst ==
  lastCall.op = "selectFallback" =>
    /\ KB[lastCall.article].fallbacks # << >> =>
          /\ lastResult.type = "same-article"
          /\ lastResult.fallback = KB[lastCall.article].fallbacks[1]
    /\ lastResult.type # "same-article" => KB[lastCall.article].fallbacks = << >>

\* An article with fallback paths, while another listed article with
\* fallback paths relates to the failure.
C12_Witness ==
  /\ lastCall.op = "selectFallback"
  /\ Len(KB[lastCall.article].fallbacks) > 1
  /\ Candidates(lastCall.article, lastCall.allArticles,
                lastCall.reasonCategory, lastCall.note) # {}
  /\ lastResult.type = "same-article"
  /\ lastResult.fallback.id = "fb1"

C14_EscalationFallThrough ==
  (/\ lastCall.op = "selectFallback"
   /\ KB[lastCall.article].fallbacks = << >>
   /\ Candidates(lastCall.article, lastCall.allArticles,
                 lastCall.reasonCategory, lastCall.note) = {}) =>
    (/\ lastResult.type = "escalation"
     /\ lastResult.escalation = KB[lastCall.article].escalation
     /\ lastResult.fallback = NoFallback
     /\ lastResult.article = NoArticle)

\* Article 4 (two steps, no fallback path, escalation to Tier2) with reason
\* "other" and note "x", the whole catalog listed.
C14_Witness ==
  /\ lastCall.op = "selectFallback"
  /\ lastCall.article = 4
  /\ lastCall.reasonCategory = "other"
  /\ lastCall.note = "x"
  /\ Len(lastCall.allArticles) = 4
  /\ lastResult.type = "escalation"
  /\ lastResult.escalation = [when |-> "always", target |-> "Tier2"]

\* C15: two duplicate triggers of the same Continue action (a double click
\* on a step's Continue control, a second click on the control of a step
\* already processed) advance currentStepIndex by at most one: the second
\* trigger changes neither currentStepIndex nor completedStepIds.
C15_NoDoubleAdvance ==
  [][(lastCall.op = "continue" /\ lastCall'.op = "continue"
        /\ lastCall'.control = lastCall.control) =>
       (/\ state'.currentStepIndex = state.currentStepIndex
        /\ state'.completedStepIds = state.completedStepIds)]_vars

\* C19: the skipped-steps counter is shown once per fallback transition:
\* the render that follows a switchToFallback which skipped N > 0 steps reads
\* N from the runner's accessor and clears it, a render that follows a render
\* of a step reads 0, and every render of a step completes without raising.
C19_SkippedCountShownOnce ==
  /\ [](lastCall.op = "renderCurrentStep" => ~lastResult.raised)
  /\ [][(lastCall.op = "switchToFallback" /\ lastResult.skippedSteps > 0
           /\ lastCall'.op = "renderCurrentStep"
           /\ lastResult'.shown = "step") =>
          lastResult'.skippedCount = lastResult.skippedSteps]_vars
  /\ [][(lastCall.op = "renderCurrentStep" /\ lastResult.shown = "step"
           /\ lastCall'.op = "renderCurrentStep"
           /\ lastResult'.shown = "step") =>
          lastResult'.skippedCount = 0]_vars

\* The steps of path `path` of article a, read off the knowledge base.
PathSteps(a, path) ==
  IF a = NoArticle THEN << >>
  ELSE IF path = "main" THEN KB[a].steps
  ELSE LET m == {i \in 1..Len(KB[a].fallbacks) : KB[a].fallbacks[i].id = path}
       IN IF m = {} THEN << >>
          ELSE KB[a].fallbacks[CHOOSE i \in m : \A j \in m : i <= j].steps

\* C16: in every reachable state and for every article, isComplete(article)
\* is true iff currentStepIndex >= the number of steps on the active path;
\* getCurrentStep(article) is the step at currentStepIndex on the active path
\* when isComplete(article) is false, and null when it is true or no article
\* is given; neither call changes the state.
C16_CompleteAndCurrentStep ==
  /\ [](\A a \in CatalogIds \cup {NoArticle} :
          LET steps == PathSteps(a, state.activePath)
              done == state.currentStepIndex >= Len(steps)
          IN /\ isComplete(state, a) <=> done
             /\ getCurrentStep(state, a) =
                  IF done \/ a = NoArticle THEN NullStep
                  ELSE steps[state.currentStepIndex + 1])
  /\ [](lastCall.op = "isComplete" =>
          (lastResult.complete <=>
             state.currentStepIndex >=
               Len(PathSteps(currentArticle, state.activePath))))
  /\ [](lastCall.op = "getCurrentStep" =>
          lastResult.step =
            IF state.currentStepIndex >=
                 Len(PathSteps(currentArticle, state.activePath))
            THEN NullStep
            ELSE PathSteps(currentArticle, state.activePath)[state.currentStepIndex + 1])
  /\ [][lastCall'.op \in {"getCurrentStep", "isComplete"} => state' = state]_vars

\* getCurrentStep answered with a step of a fallback path, past its first.
C16_Witness ==
  /\ lastCall.op = "getCurrentStep"
  /\ lastResult.step # NullStep
  /\ state.activePath # "main"
  /\ state.currentStepIndex > 0
  /\ ~isComplete(state, currentArticle)

NoDuplicates(seq) == \A i, j \in 1..Len(seq) : seq[i] = seq[j] => i = j

\* C17: getCompletionSummary(), in any state, returns the completed step ids
\* without duplicates in the order of first completion (an id completed again
\* after back keeps its first position), with the whole failureHistory and
\* attemptedPaths in append order, and does not change the state.
C17_SummaryInFirstCompletionOrder ==
  /\ [](/\ NoDuplicates(state.completedStepIds)
        /\ lastCall.op = "getCompletionSummary" =>
             /\ lastResult.completedSteps = state.completedStepIds
             /\ lastResult.failureHistory = state.failureHistory
             /\ lastResult.attemptedPaths = state.attemptedPaths)
  /\ [][lastCall'.op = "continue" =>
          (LET step == lastCall'.step
           IN state'.completedStepIds =
                IF step = NullStep \/ step.id \in CompletedIds(state)
                THEN state.completedStepIds
                ELSE Append(state.completedStepIds, step.id))]_vars
  /\ [][lastCall'.op \notin {"continue", "reset", "startArticle"} =>
          state'.completedStepIds = state.completedStepIds]_vars
  /\ [][lastCall'.op \notin {"reset", "startArticle"} =>
          IsPrefix(state.attemptedPaths, state'.attemptedPaths)]_vars
  /\ [][lastCall'.op = "getCompletionSummary" => state' = state]_vars

\* The summary of a session on the main path of article 1 in which the last
\* step was completed, left with back and completed again.
C17_Witness ==
  /\ lastCall.op = "getCompletionSummary"
  /\ currentArticle = 1
  /\ state.activePath = "main"
  /\ state.currentStepIndex = MaxSteps
  /\ contCount = -1
  /\ failCalls = 0
  /\ Len(lastResult.completedSteps) = MaxSteps
  /\ lastResult.completedSteps[1] = 1

\* C18: startArticle on an article with zero steps puts the runner directly
\* in Complete: isComplete is true, getCurrentStep is null, the returned
\* total is 0, and a following continue returns completed=true without
\* changing the state.
C18_ZeroStepArticle ==
  /\ [](lastCall.op = "startArticle" /\ KB[lastCall.articleId].steps = << >> =>
          /\ isComplete(state, currentArticle)
          /\ getCurrentStep(state, currentArticle) = NullStep
          /\ lastResult.totalSteps = 0
          /\ lastResult.currentStep = NullStep)
  /\ [][(lastCall.op = "startArticle" /\ KB[lastCall.articleId].steps = << >>
           /\ lastCall'.op = "continue") =>
          (lastResult'.completed /\ state' = state)]_vars

\* The continue that follows startArticle on the article without steps.
C18_Witness ==
  /\ lastCall.op = "continue"
  /\ currentArticle = 2
  /\ KB[2].steps = << >>
  /\ contCount = 1
  /\ lastResult.completed
  /\ state.currentStepIndex = 0

RunnerOps ==
  {"startArticle", "getCurrentStep", "continue", "back", "recordFailure",
   "switchToFallback", "getCompletionSummary", "isComplete", "reset"}

Raised(result) == "raised" \in DOMAIN result

\* C20: every Step Runner operation, called in any reachable state (Idle and
\* Complete included), with a missing article or a fallback id the article
\* does not define, returns a result and never raises; back at the start
\* returns success=false and continue past the end returns completed=true.
C20_NeverRaises ==
  /\ [](lastCall.op \in RunnerOps => ~Raised(lastResult))
  /\ [](/\ ~Raised(back(state).result)
        /\ state.currentStepIndex = 0 => ~back(state).result.success
        /\ ~Raised(recordFailure(state, NoStepId, "other", "", Now).result)
        /\ ~Raised(getCompletionSummary(state, Now))
        /\ ~Raised(startArticle(state, 1, NoArticle, Now).result)
        /\ getCurrentStep(state, NoArticle) = NullStep)
  /\ [](\A a \in ArticleIds \cup {NoArticle} :
          LET c == continue(state, a).result
          IN ~Raised(c) /\ (isComplete(state, a) => c.completed))
  /\ [](\A a \in ArticleIds :
          ~Raised(switchToFallback(state, "none", a, << >>, Now).result))

\* A switch to a fallback id the article does not define: an empty path.
C20_Witness ==
  /\ lastCall.op = "switchToFallback"
  /\ findFallback(lastCall.article, lastCall.fallbackId) = 0
  /\ lastResult.totalSteps = 0
  /\ lastResult.currentStep = NullStep
  /\ isComplete(state, currentArticle)

(***************************************************************************)
(* Progress of a session that is only continued.                           *)
(***************************************************************************)
\* The steps of the active path that are still ahead, the current one
\* included.
Remaining == getTotalSteps(state, currentArticle) - state.currentStepIndex

\* C27: from a state with index i on a path of n steps, n - i calls of
\* continue and no fewer reach completion; the Continue action takes one
\* step off the remaining ones while there are any; and when Continue is
\* taken whenever it can be, every session becomes complete and stays so.
C27_Progress ==
  /\ [](/\ Remaining >= 0
        /\ \A k \in 0..Remaining :
             isComplete(continueTimes(state, currentArticle, k), currentArticle)
               <=> (k = Remaining))
  /\ [][(lastCall'.op = "continue" /\ Remaining > 0)
          => (Remaining' = Remaining - 1)]_vars
  /\ <>[]isComplete(state, currentArticle)

\* Two clicks on Continue have completed a session that was taken up on the
\* second of the three steps of a fallback path.
C27_Witness ==
  /\ state.activePath = "fb1"
  /\ currentArticle = 1
  /\ getTotalSteps(state, currentArticle) = 3
  /\ contCount = 2
  /\ lastCall.op = "continue"
  /\ lastCall.step # NullStep
  /\ lastResult.completed
  /\ isComplete(state, currentArticle)

(***************************************************************************)
(* Properties of the side panel.                                           *)
(***************************************************************************)
\* The failure form was sent and the outcome was an escalation, or a
\* cross-article proposal the user declined.
NoSwitchOutcome(call, result) ==
  /\ call.op = "handleFailureSubmit"
  /\ ~Raised(result)
  /\ \/ result.type = "escalation"
     \/ (result.type = "cross-article" /\ ~call.confirmed)

\* C29: a failure form whose outcome is an escalation or a declined
\* cross-article proposal appends exactly one failure record, about the step
\* on display, and leaves every other field of the runner state and the
\* current article as they were: the same step is on display afterwards and
\* its controls are available.
C29_NoSwitchKeepsPosition ==
  [][NoSwitchOutcome(lastCall', lastResult') =>
       (/\ state'.failureHistory =
             Append(state.failureHistory,
                    [stepId |-> getCurrentStep(state, currentArticle).id,
                     reasonCategory |-> lastCall'.reason,
                     note |-> lastCall'.note,
                     timestamp |-> Now])
        /\ state' = [state EXCEPT !.failureHistory = state'.failureHistory]
        /\ currentArticle' = currentArticle
        /\ getCurrentStep(state', currentArticle') # NullStep
        /\ getCurrentStep(state', currentArticle') =
             getCurrentStep(state, currentArticle)
        /\ chat'.shown = "step"
        /\ ~chat'.modalOpen)]_vars

\* On the second step of the article without fallback paths, a failure was
\* answered by the escalation, and the next one by a proposal to switch to
\* another article, which the user has just declined.
C29_Witness ==
  /\ lastCall.op = "handleFailureSubmit"
  /\ lastResult.type = "cross-article"
  /\ ~lastCall.confirmed
  /\ currentArticle = 4
  /\ state.currentStepIndex = 1
  /\ state.activePath = "main"
  /\ state.attemptedPaths # << >>
  /\ Len(state.failureHistory) = 2
  /\ state.failureHistory[1].reasonCategory = "other"
  /\ state.failureHistory[2].reasonCategory = "printer"
  /\ state.failureHistory[2].stepId = 2

(***************************************************************************)
(* Properties of the chat flow.                                            *)
(***************************************************************************)
\* C28: when the user has confirmed Reset while a query was waiting, the
\* continuation of that query leaves the runner as the reset left it: it
\* starts no article.
C28_DelayedQueryStartsNothing ==
  [][(chat.pending.waiting /\ chat.pending.resetSince
      /\ lastCall'.op = "typingDelayOver")
       => (state' = state /\ currentArticle' = currentArticle)]_vars

\* C30: while the failure form is open there is a current article and a
\* current step, and sending the form never reads the id of a missing step.
C30_FormHasCurrentStep ==
  /\ chat.modalOpen =>
       /\ currentArticle # NoArticle
       /\ getCurrentStep(state, currentArticle) # NullStep
  /\ lastCall.op = "handleFailureSubmitInChat" => ~Raised(lastResult)

(***************************************************************************)
(* Properties of the retrieval scorer.                                     *)
(***************************************************************************)
QueryTokenSet == Range(normalizeQuery(lastCall.query))

\* 3 for each occurrence of a tag token in the token set Q (tag i, token j of
\* the tag), 2 for each product token in Q, 1 for each title token in Q.
WeightedCount(tagTokens, productTokens, titleTokens, Q) ==
  3 * Cardinality({o \in UNION {{<<i, j>> : j \in 1..Len(tagTokens[i])} :
                                   i \in 1..Len(tagTokens)} :
                     tagTokens[o[1]][o[2]] \in Q})
  + 2 * Cardinality({j \in 1..Len(productTokens) : productTokens[j] \in Q})
  + Cardinality({j \in 1..Len(titleTokens) : titleTokens[j] \in Q})

ExpectedScore(article, Q) ==
  WeightedCount([i \in 1..Len(article.tags) |-> normalizeQuery(article.tags[i])],
                normalizeQuery(article.product),
                normalizeQuery(article.title), Q)

\* The expected score of every article of the knowledge base, by position.
ExpectedScores ==
  {[i \in 1..Len(enhancedKnowledgeBase) |->
      ExpectedScore(enhancedKnowledgeBase[i], QueryTokenSet)]}

KBIndex(id) ==
  CHOOSE i \in 1..Len(enhancedKnowledgeBase) : enhancedKnowledgeBase[i].id = id

\* C21: the score of an article for a query is 3 times the number of its tag
\* tokens (per occurrence, multi-word tags token by token) in the query token
\* set, plus 2 times the number of product tokens in it, plus the number of
\* title tokens in it.
C21_ScoreIsWeightedCount ==
  lastCall.op = "retrieveArticles" =>
    \A S \in ExpectedScores, queryTokens \in {normalizeQuery(lastCall.query)} :
      /\ \A i \in 1..Len(enhancedKnowledgeBase) :
           scoreArticle(enhancedKnowledgeBase[i], queryTokens) = S[i]
      /\ \A m \in 1..Len(lastResult.matches) :
           lastResult.matches[m].score = S[KBIndex(lastResult.matches[m].id)]

\* The documented example: tags [email, smtp], product Outlook, title
\* "Email Not Sending" and the query "outlook email smtp" give 9.
C21_Witness ==
  /\ lastCall.op = "retrieveArticles"
  /\ lastCall.query = << "o", "u", "t", "l", "o", "o", "k", " ", "e", "m", "a", "i", "l", " ", "s", "m", "t", "p" >>
  /\ lastCall.topN = 1
  /\ lastResult.matches = << [id |-> 5, score |-> 9] >>

IsLetter(c) == c \in Range(LowerCase) \cup Range(UpperCase)

\* The query with every letter in lower case and every character that is
\* neither a letter, a digit nor whitespace replaced by a comma: queries that
\* differ only in case and in such characters have the same canonical form.
Canonical(query) ==
  LET lower == toLowerCase(query)
  IN [i \in 1..Len(query) |->
        IF IsLetter(query[i]) \/ query[i] \in Digits \/ IsSpace(query[i])
        THEN lower[i] ELSE ","]

\* C22: two queries that differ only in letter case and in characters that
\* are neither letters, digits nor whitespace (each a token separator) have
\* the same token list and the same score for every article.
C22_CaseAndPunctuationInsensitive ==
  lastCall.op = "retrieveArticles" =>
    \A tokens \in {normalizeQuery(lastCall.query)},
       others \in {normalizeQuery(Canonical(lastCall.query))} :
      /\ tokens = others
      /\ \A i \in 1..Len(enhancedKnowledgeBase) :
           scoreArticle(enhancedKnowledgeBase[i], tokens)
             = scoreArticle(enhancedKnowledgeBase[i], others)

\* The position of article i in the ranking by the scores S: the articles
\* that score higher, and those that score the same and stand earlier in the
\* array, go first.
Rank(S, i) ==
  Cardinality({j \in DOMAIN S : S[j] > S[i] \/ (S[j] = S[i] /\ j < i)})

\* C23: for a non-empty query the matches are the first topN articles in
\* descending score order, ties in knowledge-base order, without the entries
\* of score 0: at most topN entries, all positive, non-increasing, equal
\* scores in knowledge-base order, no omitted article above a returned one.
C23_TopMatches ==
  lastCall.op = "retrieveArticles" /\ QueryTokenSet # {} =>
    \A S \in ExpectedScores :
      LET matches == lastResult.matches
          chosen == {i \in DOMAIN S : S[i] > 0 /\ Rank(S, i) < lastCall.topN}
          returned == {matches[n].id : n \in 1..Len(matches)}
      IN /\ Len(matches) = Cardinality(chosen)
         /\ \A m \in 1..Len(matches) :
              /\ KBIndex(matches[m].id) \in chosen
              /\ Rank(S, KBIndex(matches[m].id)) = m - 1
              /\ matches[m].score = S[KBIndex(matches[m].id)]
              /\ matches[m].score > 0
         /\ Len(matches) <= lastCall.topN
         /\ \A m, n \in 1..Len(matches) :
              m < n =>
                /\ matches[m].score >= matches[n].score
                /\ matches[m].score = matches[n].score =>
                     KBIndex(matches[m].id) < KBIndex(matches[n].id)
         /\ \A i \in DOMAIN S, m \in 1..Len(matches) :
              enhancedKnowledgeBase[i].id \notin returned => S[i] <= matches[m].score

\* Two matches of equal score returned in knowledge-base order while a third
\* article with a positive score is cut off by topN.
C23_Witness ==
  /\ lastCall.op = "retrieveArticles"
  /\ lastCall.topN = 2
  /\ Len(lastResult.matches) = 2
  /\ lastResult.matches[1].id = 2
  /\ lastResult.matches[2].id = 3
  /\ lastResult.matches[1].score = lastResult.matches[2].score
  /\ \E S \in ExpectedScores, i \in 1..Len(enhancedKnowledgeBase) :
       S[i] > 0 /\ enhancedKnowledgeBase[i].id \notin {2, 3}

\* C24: lowConfidence is true iff the match list is non-empty and its top
\* score is below 9; with no positive score the result is the empty list
\* with lowConfidence false.
C24_LowConfidenceFlag ==
  lastCall.op = "retrieveArticles" =>
    (lastResult.lowConfidence <=>
       (lastResult.matches # << >> /\ lastResult.matches[1].score < 9))

\* The tokens of an article: of its tags, its product and its title.
ArticleTokens(article) ==
  UNION {Range(normalizeQuery(article.tags[i])) : i \in 1..Len(article.tags)}
    \cup Range(normalizeQuery(article.product))
    \cup Range(normalizeQuery(article.title))

\* C25: retrieveArticles returns an empty match list without scoring any
\* article when the query is empty or normalizes to zero tokens, and an
\* empty match list when no article has a token equal to a query token; in
\* both cases it returns a value and does not raise.
C25_EmptyAndNoMatch ==
  lastCall.op = "retrieveArticles" =>
    \A Q \in {QueryTokenSet} :
      /\ ~Raised(lastResult)
      /\ Q = {} => (lastResult.matches = << >> /\ lastCall.scored = 0)
      /\ (\A i \in 1..Len(enhancedKnowledgeBase) :
            ArticleTokens(enhancedKnowledgeBase[i]) \cap Q = {}) =>
           lastResult.matches = << >>

\* A query of punctuation and whitespace only: no token, nothing scored.
C25_Witness ==
  /\ lastCall.op = "retrieveArticles"
  /\ lastCall.query = << ",", " " >>
  /\ lastCall.topN = MaxTopN
  /\ lastResult.matches = << >>
  /\ lastCall.scored = 0

\* C26: retrieveArticles has no side effects: the knowledge base holds the
\* same articles in the same order with the same fields after a search, and
\* a second search with the same query and topN returns what the first did.
C26_SearchIsPure ==
  [][lastCall'.op = "retrieveArticles" =>
       (/\ enhancedKnowledgeBase' = enhancedKnowledgeBase
        /\ enhancedKnowledgeBase' = EnhancedKB
        /\ lastCall.op = "retrieveArticles" =>
             (/\ lastCall'.query = lastCall.query
              /\ lastCall'.topN = lastCall.topN
              /\ lastResult' = lastResult))]_vars

\* A repeated search whose best match is not the first article of the
\* knowledge base.
C26_Witness ==
  /\ lastCall.op = "retrieveArticles"
  /\ lastCall.again
  /\ lastResult.matches # << >>
  /\ lastResult.matches[1].id # enhancedKnowledgeBase[1].id

(***************************************************************************)
(* Properties of the runner state as the panels drive it.                  *)
(***************************************************************************)
\* C31: while a session is active, selectedArticleId is the id of the
\* article the panel is navigating.
C31_SelectedIsNavigated ==
  InSession => (state.selectedArticleId = currentArticle)

AttemptedPathIds ==
  [i \in 1..Len(state.attemptedPaths) |-> state.attemptedPaths[i].path]

\* C33: within a session no path id occurs twice in attemptedPaths: a
\* failure reported on a fallback path does not switch to that path again.
C33_NoPathAttemptedTwice ==
  \A i, j \in 1..Len(AttemptedPathIds) :
    (AttemptedPathIds[i] = AttemptedPathIds[j]) => (i = j)

\* C34: in the chat flow chatState agrees with the runner: 'completed' only
\* while the path is complete, 'in-step' only while a session is active,
\* 'initial' only while no session is active.
C34_ChatStateAgrees ==
  /\ (chat.chatState = "completed") => isComplete(state, currentArticle)
  /\ (chat.chatState = "in-step") => InSession
  /\ (chat.chatState = "initial") => ~InSession

(***************************************************************************)
(* Further properties of the retrieval scorer.                             *)
(***************************************************************************)
Reverse(seq) == [i \in 1..Len(seq) |-> seq[Len(seq) + 1 - i]]

\* How often the token occurs in the token list.
Occurrences(token, tokens) ==
  Cardinality({j \in 1..Len(tokens) : tokens[j] = token})

RECURSIVE SumOccurrences(_, _)
SumOccurrences(tokenSet, tokens) ==
  IF tokenSet = {} THEN 0
  ELSE LET t == CHOOSE x \in tokenSet : TRUE
       IN Occurrences(t, tokens) + SumOccurrences(tokenSet \ {t}, tokens)

\* The tokens of all tags of the article, tag after tag.
RECURSIVE TagTokens(_)
TagTokens(tags) ==
  IF tags = << >> THEN << >>
  ELSE normalizeQuery(Head(tags)) \o TagTokens(Tail(tags))

\* What the distinct tokens of Q contribute per occurrence in the article:
\* 3 among the tag tokens, 2 among the product tokens, 1 among the title
\* tokens.
PerOccurrence(article, Q) ==
  3 * SumOccurrences(Q, TagTokens(article.tags))
  + 2 * SumOccurrences(Q, normalizeQuery(article.product))
  + SumOccurrences(Q, normalizeQuery(article.title))

\* C35: the score of every article is the same for the query tokens as
\* typed, in reverse order, and with every token repeated; it is what each
\* distinct query token contributes per occurrence in the tags, the product
\* and the title; and the scores returned are these.
C35_QueryIsATokenSet ==
  lastCall.op = "retrieveArticles" =>
    \A tokens \in {normalizeQuery(lastCall.query)} :
      \A E \in {[i \in 1..Len(enhancedKnowledgeBase) |->
                   PerOccurrence(enhancedKnowledgeBase[i], Range(tokens))]} :
        /\ \A i \in 1..Len(enhancedKnowledgeBase) :
             /\ scoreArticle(enhancedKnowledgeBase[i], tokens) = E[i]
             /\ scoreArticle(enhancedKnowledgeBase[i], Reverse(tokens)) = E[i]
             /\ scoreArticle(enhancedKnowledgeBase[i], tokens \o tokens) = E[i]
        /\ \A m \in 1..Len(lastResult.matches) :
             lastResult.matches[m].score = E[KBIndex(lastResult.matches[m].id)]

\* The query "a a": one token, twice.  Article 4, with a in a tag, in the
\* product and in the title, scores 3 + 2 + 1 and comes first; article 1,
\* whose title is "a a", scores 1 + 1.
C35_Witness ==
  /\ lastCall.op = "retrieveArticles"
  /\ normalizeQuery(lastCall.query) = << <<"a">>, <<"a">> >>
  /\ lastCall.topN = MaxTopN
  /\ lastResult.matches[1] = [id |-> 4, score |-> 6]
  /\ scoreArticle(enhancedKnowledgeBase[1], normalizeQuery(lastCall.query)) = 2

\* C36: getArticleById returns the article of the knowledge base with the id
\* asked for, and null when there is none; findBestMatch returns the article
\* of the first entry of retrieveArticles(query, 1): the first article, in
\* knowledge-base order, among those of maximal score when that score is
\* positive, and null otherwise.  Neither raises.
C36_LookupAndBestMatch ==
  /\ (lastCall.op = "getArticleById") =>
       (/\ ~Raised(lastResult)
        /\ IF \E i \in 1..Len(enhancedKnowledgeBase) :
                enhancedKnowledgeBase[i].id = lastCall.id
           THEN /\ lastResult.article \in Range(enhancedKnowledgeBase)
                /\ lastResult.article.id = lastCall.id
           ELSE lastResult.article = NullArticle)
  /\ (lastCall.op = "findBestMatch") =>
       \A tokens \in {normalizeQuery(lastCall.query)} :
         \A S \in {[i \in 1..Len(enhancedKnowledgeBase) |->
                      scoreArticle(enhancedKnowledgeBase[i], tokens)]} :
           \A best \in {i \in DOMAIN S :
                          /\ \A j \in DOMAIN S : S[j] <= S[i]
                          /\ \A j \in DOMAIN S : (S[j] = S[i]) => (i <= j)} :
             /\ ~Raised(lastResult)
             /\ lastResult.article =
                  (IF S[best] > 0 THEN enhancedKnowledgeBase[best]
                   ELSE NullArticle)
             /\ \A matches \in {retrieveArticles(enhancedKnowledgeBase,
                                                 lastCall.query, 1).result.matches} :
                  IF matches = << >> THEN lastResult.article = NullArticle
                  ELSE lastResult.article.id = matches[1].id

\* A best match that is neither the first article of the knowledge base nor
\* the only one with a positive score, and that ties with a later article:
\* articles 2 and 3 score alike.
C36_Witness ==
  /\ lastCall.op = "findBestMatch"
  /\ lastResult.article = enhancedKnowledgeBase[2]
  /\ scoreArticle(enhancedKnowledgeBase[1], normalizeQuery(lastCall.query)) > 0
  /\ scoreArticle(enhancedKnowledgeBase[3], normalizeQuery(lastCall.query))
       = scoreArticle(enhancedKnowledgeBase[2], normalizeQuery(lastCall.query))

(***************************************************************************)
(* Properties of the legacy StepManager.                                   *)
(***************************************************************************)
\* The larger of two integers.
Max2(a, b) == IF a >= b THEN a ELSE b

\* C37: the index stays between 0 and max(0, maxSteps - 1); nextStep returns
\* false and changes nothing at the last step or without an article, and
\* otherwise adds one and returns true; previousStep returns false and
\* changes nothing at step 0 (or without an article), and otherwise takes
\* one off and returns true; reset sets the index to 0 and keeps the
\* article; clear removes the article.
C37_StepManagerNavigation ==
  /\ [](/\ 0 <= stepManager.currentStepIndex
        /\ stepManager.currentStepIndex <= Max2(0, stepManager.maxSteps - 1)
        /\ stepManager.maxSteps = Len(stepManager.currentArticle.steps))
  /\ [][(lastCall'.op = "nextStep") =>
          (IF \/ stepManager.currentArticle = NoLegacyArticle
              \/ stepManager.currentStepIndex
                   = Max2(0, stepManager.maxSteps - 1)
           THEN lastResult'.value = FALSE /\ stepManager' = stepManager
           ELSE /\ lastResult'.value = TRUE
                /\ stepManager' =
                     [stepManager EXCEPT !.currentStepIndex = @ + 1])]_vars
  /\ [][(lastCall'.op = "previousStep") =>
          (IF \/ stepManager.currentArticle = NoLegacyArticle
              \/ stepManager.currentStepIndex = 0
           THEN lastResult'.value = FALSE /\ stepManager' = stepManager
           ELSE /\ lastResult'.value = TRUE
                /\ stepManager' =
                     [stepManager EXCEPT !.currentStepIndex = @ - 1])]_vars
  /\ [][(lastCall'.op = "resetSteps") =>
          (stepManager' = [stepManager EXCEPT !.currentStepIndex = 0])]_vars
  /\ [][(lastCall'.op = "clear") =>
          (stepManager'.currentArticle = NoLegacyArticle)]_vars

\* nextStep has just refused at the last step of the longest article, which
\* was reached step by step.
C37_Witness ==
  /\ lastCall.op = "nextStep"
  /\ lastResult.value = FALSE
  /\ stepManager.maxSteps = MaxLegacySteps
  /\ stepManager.currentStepIndex = MaxLegacySteps - 1
  /\ lastCall.before = stepManager

\* C38: getCurrentStep returns null exactly when no article is set; with an
\* article, of any number of steps, it returns a snapshot with stepNumber
\* index + 1, totalSteps the number of steps, isFirst exactly at index 0 and
\* isLast exactly at index totalSteps - 1; it never raises and changes
\* nothing.
C38_SnapshotForEveryArticle ==
  (lastCall.op = "getCurrentStep") =>
    /\ stepManager = lastCall.before
    /\ ~Raised(lastResult.value)
    /\ ("null" \in DOMAIN lastResult.value)
         <=> (stepManager.currentArticle = NoLegacyArticle)
    /\ ("stepNumber" \in DOMAIN lastResult.value) =>
         /\ lastResult.value.stepNumber = stepManager.currentStepIndex + 1
         /\ lastResult.value.totalSteps = Len(stepManager.currentArticle.steps)
         /\ lastResult.value.isFirst <=> (stepManager.currentStepIndex = 0)
         /\ lastResult.value.isLast <=>
              (stepManager.currentStepIndex = lastResult.value.totalSteps - 1)

(***************************************************************************)
(* The texts the failure handler hands to switchToFallback.                *)
(***************************************************************************)
\* The steps of every path of the article.
StepsOfAllPaths(article) ==
  Range(KB[article].steps) \cup
    UNION {Range(KB[article].fallbacks[i].steps) :
             i \in 1..Len(KB[article].fallbacks)}

\* C39: when the failure handler switches to a fallback path, the texts it
\* hands over contain the text of every step of the current article, on its
\* main path or on a fallback path, whose id is in completedStepIds, and
\* every text handed over is the text of a step of the catalog whose id is
\* in completedStepIds.
C39_AllCompletedTextsHandedOver ==
  [][(/\ lastCall'.op = "handleFailureSubmit"
      /\ Len(state'.attemptedPaths) > Len(state.attemptedPaths))
       => (\A texts \in {Range(completedStepTexts(state, currentArticle))} :
             /\ \A st \in StepsOfAllPaths(currentArticle) :
                  (st.id \in Range(state.completedStepIds)) => (st.text \in texts)
             /\ \A text \in texts :
                  \E a \in CatalogIds : \E st \in StepsOfAllPaths(a) :
                    /\ st.text = text
                    /\ st.id \in Range(state.completedStepIds))]_vars

====
